---- MODULE Spec2Model ----
(***************************************************************************)
(* The microservice benchmark harness of mx_sdk_benchmark.py               *)
(* (BaseMicroserviceBenchmarkSuite and its helpers): the primary path that *)
(* runs the stages and the benchmarked server, the tester paths started    *)
(* with threading.Thread, the first-response prober paths, and the         *)
(* operating system's view of which process holds the service port.        *)
(*                                                                         *)
(* Time is discrete, one Tick per second.  time.sleep(1) lasts at least    *)
(* one Tick; every other statement takes no time of its own but a path may *)
(* be delayed between any two of its steps.                                *)
(***************************************************************************)
EXTENDS Integers, Sequences, FiniteSets, TLC

\* ---------------------------------------------------------------- bounds
MaxStages == 2        \* longest stage list explored
MaxDelay == 1         \* longest start-up delay (seconds) of a launched server
MaxTimeout == 5       \* largest timeout explored for a stand-alone waitForPort call
MaxWaitDelay == 5     \* largest port-opening delay explored for a stand-alone call
ProbeAttempts == 2    \* stands for range(60*100) of timeToFirstResponseThread
PortWaitTimeout == 2  \* stands for the default timeout=10 of the testers' port wait
MaxCalls == 2         \* runTester calls followed on one Wrk suite object
MaxSamples == 100     \* most data points collected by one JMeter run
MaxParses == 2        \* applications of the rules to one captured output
MaxLines == 2         \* most lines of a captured output given to a suite's rules
MaxName == 5          \* longest suite name, in characters
MaxLine == 5          \* longest output line (in tokens) given to a single rule
MaxArgs == 2          \* most arguments given to one run
MaxArg == 3           \* longest argument, in tokens
MaxOverride == 4      \* longest stage override argument, in tokens
MaxWords == 2         \* most words of a server command
MaxWord == 2          \* longest word of a server command, in characters

\* ------------------------------------------------------ program constants
TerminateTimeout == 0 \* waitForPort(port, 0) in terminateApplication

Testers == 1..MaxStages      \* one tester/prober/server slot per stage index
ProcIds == 1..MaxStages
NoProc == 0                  \* Python's None as a waitForPort result
NoStatus == 2                \* run_stage has not returned

\* Stage names, as the hyphen-separated words they are made of.
StageNames == { <<"agent">>, <<"instrument", "image">>, <<"instrument", "run">>,
                <<"image">>, <<"run">> }
DefaultStages == << <<"agent">>, <<"instrument", "image">>, <<"instrument", "run">>,
                    <<"image">>, <<"run">> >>

\* 'image' in stage / 'agent' in stage
Contains(stage, word) == \E i \in 1..Len(stage) : stage[i] = word
\* Mutant of IsBuildStage: stage == 'image' instead of 'image' in stage.
IsBuildStageExact(stage) == stage = <<"image">>
IsBuildStage(stage) == Contains(stage, "image")
IsAgentStage(stage) == Contains(stage, "agent")

\* The stage lists explored: the default list and its sublists (stages kept in the
\* default order) of at most MaxStages stages.
Sublist(keep) ==
    LET F[i \in 0..Len(DefaultStages)] ==
            IF i = 0 THEN << >>
            ELSE IF i \in keep THEN Append(F[i - 1], DefaultStages[i]) ELSE F[i - 1]
    IN  F[Len(DefaultStages)]
StageLists == { Sublist(keep) : keep \in { k \in SUBSET (1..Len(DefaultStages)) :
                                             Cardinality(k) \in 1..MaxStages } }

\* Error messages of mx.abort
ServerNotFound == "Failed to find server application"
TerminationFailure == "Failed to terminate server application"
ProbeTimeout == "Failed measure time to first response"
ExternalToolFailure == "external tool returned non-zero"
ConfigError == "not specified in Wrk configuration"

VARIABLES
    native,          \* inNativeMode()
    stages,          \* the stage list of this run
    mainPc,          \* position of the primary path
    stage,           \* index of the stage being executed
    tpc,             \* position of each tester path
    terr,            \* the abort message of each tester path
    wait,            \* each tester path's waitForPort call frame
    found,           \* `not waitForPort(...)` of the port wait: "pending", "yes", "no"
    toolRuns,        \* load-tool invocations issued by each tester path
    warmup,          \* the configuration runTester loaded: "unread", "invalid", or its
                     \* warm-up duration, "set" or "unset"
    measuredDone,    \* runTester has returned on this path
    termResult,      \* what terminateApplication returned: "none", "true", "false"
    termBound,       \* << processes bound to the port at terminateApplication's scan >>
    ppc,             \* position of each prober path
    attempts,        \* polls made by each prober path
    published,       \* how many times each prober assigned and logged the annotation
    proc,            \* the server processes
    signals,         \* <<tester, process, signal>>: sent by terminateApplication
    testerOutput,    \* self.testerOutput
    timeToFirstResponseOutput, \* self.timeToFirstResponseOutput
    result,          \* what runAndReturnStdOut returned
    steps,           \* per stage: what run_stage has done so far, in order
    stageRet,        \* per stage: what run_stage returned (NoStatus: nothing yet)
    kind,            \* the Wrk suite class: "wrk1" or "wrk2"
    config,          \* the workload configuration document loadConfiguration returns
    defaultCmd,      \* the list object that is the default of setupWrkCmd's cmd=[]
    wrk,             \* the runTester call in progress: position, wrkPath, wrkFlags
    runs,            \* one record per runTester call: the commands it issued, its end
    jmeter,          \* BaseJMeterBenchmarkSuite.run: its position and its `results`
    engine,          \* the rules in use, the captured output, what parsing it gave
    bench,           \* benchSuiteName() and what benchMicroserviceName() made of it
    flagCall,        \* the run's arguments and what a flag accessor made of them
    probeCall        \* a timeToFirstResponse(cmd, bmSuite) call and what it did

vars == << native, stages, mainPc, stage,
           tpc, terr, wait, found, toolRuns, warmup, measuredDone, termResult, termBound,
           ppc, attempts, published, proc, signals, testerOutput, timeToFirstResponseOutput,
           result, steps, stageRet, kind, config, defaultCmd, wrk, runs, jmeter,
           engine, bench, flagCall, probeCall >>

inputVars == << native, stages >>
mainVars == << mainPc, stage, result, steps, stageRet >>
testerVars == << tpc, terr, found, toolRuns, warmup, measuredDone, termResult, termBound >>
proberVars == << ppc, attempts, published >>
bufferVars == << testerOutput, timeToFirstResponseOutput >>
wrkVars == << kind, config, defaultCmd, wrk, runs >>
fnVars == << jmeter, engine, bench, flagCall, probeCall >>

\* ------------------------------------------------------------ processes
NoProcess == [st |-> "none", openIn |-> 0, delay |-> 0, rc |-> 0]
Starting(d) == [st |-> "starting", openIn |-> d, delay |-> d, rc |-> 0]
Exited == [st |-> "exited", openIn |-> 0, delay |-> 0, rc |-> 0]
\* the exit statuses explored: success and one failure
ExitStatuses == {0, 1}

\* conns.laddr.port == port for some connection of the process
Bound(p) == proc[p].st = "listening"
BoundProcs == { p \in ProcIds : Bound(p) }

\* ------------------------------------------------------------ waitForPort
IdleFrame == [timeout |-> 0, i |-> 0, phase |-> "idle", rem |-> 0, res |-> NoProc,
              scans |-> 0, sleeps |-> 0]
\* entry of waitForPort(port, timeout): the first iteration of range(timeout + 1)
CallFrame(timeout) == [timeout |-> timeout, i |-> 0, phase |-> "scan", rem |-> 0,
                       res |-> NoProc, scans |-> 0, sleeps |-> 0]

\* Mutants of WaitIterations: range(timeout), range(timeout + 2).
WaitIterationsShort(timeout) == timeout
WaitIterationsLong(timeout) == timeout + 2

\* for _ in range(timeout + 1)
WaitIterations(timeout) == timeout + 1

\* One pass of `for proc in psutil.process_iter()`: return the first process with
\* a connection on the port, else fall through to time.sleep(1).
AfterScan(f, hit) ==
    IF hit # NoProc
    THEN [f EXCEPT !.phase = "ret", !.res = hit, !.scans = f.scans + 1]
    ELSE [f EXCEPT !.phase = "sleep", !.rem = 1, !.scans = f.scans + 1]

\* time.sleep(1) is over: next iteration, or `return None` when the range is used up
AfterSleep(f) ==
    IF f.i + 1 < WaitIterations(f.timeout)
    THEN [f EXCEPT !.phase = "scan", !.i = f.i + 1, !.sleeps = f.sleeps + 1]
    ELSE [f EXCEPT !.phase = "ret", !.i = f.i + 1, !.res = NoProc,
                   !.sleeps = f.sleeps + 1]

WaitScan(t) ==
    /\ wait[t].phase = "scan"
    /\ \E hit \in (IF BoundProcs = {} THEN {NoProc} ELSE BoundProcs) :
          /\ wait' = [wait EXCEPT ![t] = AfterScan(wait[t], hit)]
          /\ termBound' = IF tpc[t] = "terminate"
                          THEN [termBound EXCEPT ![t] = Append(@, BoundProcs)]
                          ELSE termBound
    /\ UNCHANGED << fnVars, inputVars, wrkVars, mainVars, tpc, terr, found, toolRuns, warmup, measuredDone,
                    termResult, proberVars, proc, signals, bufferVars >>

WaitWake(t) ==
    /\ wait[t].phase = "sleep"
    /\ wait[t].rem = 0
    /\ wait' = [wait EXCEPT ![t] = AfterSleep(wait[t])]
    /\ UNCHANGED << fnVars, inputVars, wrkVars, mainVars, testerVars, proberVars, proc, signals,
                    bufferVars >>

\* ------------------------------------------------------------------ time
Sleeping(t) == wait[t].phase = "sleep" /\ wait[t].rem > 0
Opening(p) == proc[p].st = "starting" /\ proc[p].openIn > 0
\* a starting server whose delay has run out opens its port (or dies) now
Due(p) == proc[p].st = "starting" /\ proc[p].openIn = 0

Tick ==
    /\ { t \in Testers : Sleeping(t) } \cup { p \in ProcIds : Opening(p) } # {}
    /\ \A p \in ProcIds : ~Due(p)
    /\ wait' = [t \in Testers |->
                  IF Sleeping(t) THEN [wait[t] EXCEPT !.rem = 0] ELSE wait[t]]
    /\ proc' = [p \in ProcIds |->
                  IF Opening(p) THEN [proc[p] EXCEPT !.openIn = proc[p].openIn - 1]
                  ELSE proc[p]]
    /\ UNCHANGED << fnVars, inputVars, wrkVars, mainVars, testerVars, proberVars, signals, bufferVars >>

\* -------------------------------------------------- the server processes
\* The launched server opens its listening port once its start-up delay is over.
PortOpen(p) ==
    /\ Due(p)
    /\ proc' = [proc EXCEPT ![p].st = "listening"]
    /\ UNCHANGED << fnVars, inputVars, wrkVars, mainVars, testerVars, wait, proberVars, signals,
                    bufferVars >>

\* The server exits: on the SIGTERM it received, or by itself (a crash, a failure
\* to bind, mx killing its subprocesses on an abort).
ProcExit(p) ==
    /\ proc[p].st \in {"starting", "listening"}
    /\ \E rc \in ExitStatuses : proc' = [proc EXCEPT ![p] = [Exited EXCEPT !.rc = rc]]
    /\ UNCHANGED << fnVars, inputVars, wrkVars, mainVars, testerVars, wait, proberVars, signals,
                    bufferVars >>

\* ------------------------------------------------------- the tester path
\* mx.abort(message) on a tester path: the path ends, the message is reported.
Abort(t, message) ==
    /\ tpc' = [tpc EXCEPT ![t] = "aborted"]
    /\ terr' = [terr EXCEPT ![t] = message]

\* threading.Thread(target=runTesterInBackground, args=[self]).start():
\* the new path enters waitForPort(servicePort()) with the default timeout.
StartTester(t) ==
    /\ tpc' = [tpc EXCEPT ![t] = "waitPort"]
    /\ wait' = [wait EXCEPT ![t] = CallFrame(PortWaitTimeout)]

\* Mutant of TesterPortWaitReturn: terminateApplication is called before runTester.
TesterPortWaitReturnTerminatesFirst(t) ==
    /\ tpc[t] = "waitPort"
    /\ wait[t].phase = "ret"
    /\ found' = [found EXCEPT ![t] = IF wait[t].res = NoProc THEN "no" ELSE "yes"]
    /\ IF wait[t].res = NoProc
       THEN Abort(t, ServerNotFound) /\ wait' = [wait EXCEPT ![t] = IdleFrame]
       ELSE /\ tpc' = [tpc EXCEPT ![t] = "terminate"]
            /\ wait' = [wait EXCEPT ![t] = CallFrame(TerminateTimeout)]
            /\ terr' = terr
    /\ UNCHANGED << fnVars, inputVars, wrkVars, mainVars, toolRuns, warmup, measuredDone, termResult,
                    termBound, proberVars, proc, signals, bufferVars >>

\* Mutant of TesterPortWaitReturn: the result of waitForPort is not tested.
TesterPortWaitReturnUnchecked(t) ==
    /\ tpc[t] = "waitPort"
    /\ wait[t].phase = "ret"
    /\ found' = [found EXCEPT ![t] = IF wait[t].res = NoProc THEN "no" ELSE "yes"]
    /\ wait' = [wait EXCEPT ![t] = IdleFrame]
    /\ tpc' = [tpc EXCEPT ![t] = "runTester"]
    /\ UNCHANGED << fnVars, inputVars, wrkVars, mainVars, terr, toolRuns, warmup, measuredDone,
                    termResult, termBound, proberVars, proc, signals, bufferVars >>

\* if not waitForPort(servicePort()): mx.abort("Failed to find server application")
TesterPortWaitReturn(t) ==
    /\ tpc[t] = "waitPort"
    /\ wait[t].phase = "ret"
    /\ found' = [found EXCEPT ![t] = IF wait[t].res = NoProc THEN "no" ELSE "yes"]
    /\ wait' = [wait EXCEPT ![t] = IdleFrame]
    /\ IF wait[t].res = NoProc
       THEN Abort(t, ServerNotFound)
       ELSE tpc' = [tpc EXCEPT ![t] = "runTester"] /\ terr' = terr
    /\ UNCHANGED << fnVars, inputVars, wrkVars, mainVars, toolRuns, warmup, measuredDone, termResult, termBound,
                    proberVars, proc, signals, bufferVars >>

\* runTester() up to its first mx.run: the configuration is loaded and the flags
\* are set up (mx.abort when a mandatory key is missing); then the warm-up run when
\* a warm-up duration is configured, otherwise the measured run, whose capture
\* replaces self.testerOutput.
RunTesterBegin(t) ==
    /\ tpc[t] = "runTester"
    /\ \E complete \in BOOLEAN, warmupDuration \in BOOLEAN :
          IF ~complete
          THEN /\ ~warmupDuration
               /\ Abort(t, ConfigError)
               /\ warmup' = [warmup EXCEPT ![t] = "invalid"]
               /\ UNCHANGED << toolRuns, testerOutput >>
          ELSE /\ toolRuns' = [toolRuns EXCEPT ![t] = toolRuns[t] + 1]
               /\ terr' = terr
               /\ IF warmupDuration
                  THEN /\ tpc' = [tpc EXCEPT ![t] = "warmup"]
                       /\ warmup' = [warmup EXCEPT ![t] = "set"]
                       /\ testerOutput' = testerOutput
                  ELSE /\ tpc' = [tpc EXCEPT ![t] = "measured"]
                       /\ warmup' = [warmup EXCEPT ![t] = "unset"]
                       /\ testerOutput' = t
    /\ UNCHANGED << fnVars, inputVars, wrkVars, mainVars, wait, found, measuredDone, termResult,
                    termBound, proberVars, proc, signals, timeToFirstResponseOutput >>

\* mx.run(warmupWrkCmd, ...) returns; a non-zero status aborts (mx.run's default).
\* Then self.testerOutput = mx.TeeOutputCapture(...) and the measured mx.run starts.
WarmupReturn(t) ==
    /\ tpc[t] = "warmup"
    /\ \E rc \in {0, 1} :
          IF rc = 0
          THEN /\ tpc' = [tpc EXCEPT ![t] = "measured"]
               /\ toolRuns' = [toolRuns EXCEPT ![t] = toolRuns[t] + 1]
               /\ testerOutput' = t
               /\ terr' = terr
          ELSE /\ Abort(t, ExternalToolFailure)
               /\ UNCHANGED << toolRuns, testerOutput >>
    /\ UNCHANGED << fnVars, inputVars, wrkVars, mainVars, wait, found, warmup, measuredDone, termResult,
                    termBound, proberVars, proc, signals, timeToFirstResponseOutput >>

\* Mutant of MeasuredReturn: runTesterInBackground ends after runTester, without
\* calling terminateApplication.
MeasuredReturnWithoutTerminate(t) ==
    /\ tpc[t] = "measured"
    /\ \E rc \in {0, 1} :
          IF rc = 0
          THEN /\ tpc' = [tpc EXCEPT ![t] = "done"]
               /\ measuredDone' = [measuredDone EXCEPT ![t] = TRUE]
               /\ terr' = terr
          ELSE /\ Abort(t, ExternalToolFailure)
               /\ UNCHANGED measuredDone
    /\ UNCHANGED << fnVars, inputVars, wrkVars, mainVars, wait, found, toolRuns, warmup, termResult,
                    termBound, proberVars, proc, signals, bufferVars >>

\* The measured mx.run returns and so does runTester(); runTesterInBackground then
\* calls terminateApplication(servicePort()), which enters waitForPort(port, 0).
MeasuredReturn(t) ==
    /\ tpc[t] = "measured"
    /\ \E rc \in {0, 1} :
          IF rc = 0
          THEN /\ tpc' = [tpc EXCEPT ![t] = "terminate"]
               /\ measuredDone' = [measuredDone EXCEPT ![t] = TRUE]
               /\ wait' = [wait EXCEPT ![t] = CallFrame(TerminateTimeout)]
               /\ terr' = terr
          ELSE /\ Abort(t, ExternalToolFailure)
               /\ UNCHANGED << measuredDone, wait >>
    /\ UNCHANGED << fnVars, inputVars, wrkVars, mainVars, found, toolRuns, warmup, termResult, termBound,
                    proberVars, proc, signals, bufferVars >>

\* proc.send_signal(signal.SIGTERM), by tester path t to process p
Sigterm(t, p) == << t, p, "SIGTERM" >>

\* Mutant of TerminateReturn: the process is also sent SIGKILL.
TerminateReturnForcesKill(t) ==
    /\ tpc[t] = "terminate"
    /\ wait[t].phase = "ret"
    /\ wait' = [wait EXCEPT ![t] = IdleFrame]
    /\ IF wait[t].res # NoProc
       THEN /\ signals' = signals \cup { Sigterm(t, wait[t].res),
                                         << t, wait[t].res, "SIGKILL" >> }
            /\ termResult' = [termResult EXCEPT ![t] = "true"]
            /\ tpc' = [tpc EXCEPT ![t] = "done"]
            /\ terr' = terr
       ELSE /\ termResult' = [termResult EXCEPT ![t] = "false"]
            /\ Abort(t, TerminationFailure)
            /\ UNCHANGED signals
    /\ UNCHANGED << fnVars, inputVars, wrkVars, mainVars, found, toolRuns, warmup, measuredDone, termBound,
                    proberVars, proc, bufferVars >>

\* Mutant of TerminateReturn: the result of terminateApplication is not tested.
TerminateReturnUnchecked(t) ==
    /\ tpc[t] = "terminate"
    /\ wait[t].phase = "ret"
    /\ wait' = [wait EXCEPT ![t] = IdleFrame]
    /\ tpc' = [tpc EXCEPT ![t] = "done"]
    /\ IF wait[t].res # NoProc
       THEN /\ signals' = signals \cup { Sigterm(t, wait[t].res) }
            /\ termResult' = [termResult EXCEPT ![t] = "true"]
       ELSE /\ termResult' = [termResult EXCEPT ![t] = "false"]
            /\ UNCHANGED signals
    /\ UNCHANGED << fnVars, inputVars, wrkVars, mainVars, terr, found, toolRuns, warmup, measuredDone,
                    termBound, proberVars, proc, bufferVars >>

\* Mutant of TerminateReturn: terminateApplication returns True on both branches.
TerminateReturnAlwaysTrue(t) ==
    /\ tpc[t] = "terminate"
    /\ wait[t].phase = "ret"
    /\ wait' = [wait EXCEPT ![t] = IdleFrame]
    /\ tpc' = [tpc EXCEPT ![t] = "done"]
    /\ termResult' = [termResult EXCEPT ![t] = "true"]
    /\ signals' = IF wait[t].res # NoProc THEN signals \cup { Sigterm(t, wait[t].res) }
                  ELSE signals
    /\ UNCHANGED << fnVars, inputVars, wrkVars, mainVars, terr, found, toolRuns, warmup, measuredDone,
                    termBound, proberVars, proc, bufferVars >>

\* terminateApplication after its lookup: proc.send_signal(SIGTERM) and True when a
\* process was found, False otherwise; on False the tester path aborts.
TerminateReturn(t) ==
    /\ tpc[t] = "terminate"
    /\ wait[t].phase = "ret"
    /\ wait' = [wait EXCEPT ![t] = IdleFrame]
    /\ IF wait[t].res # NoProc
       THEN /\ signals' = signals \cup { Sigterm(t, wait[t].res) }
            /\ termResult' = [termResult EXCEPT ![t] = "true"]
            /\ tpc' = [tpc EXCEPT ![t] = "done"]
            /\ terr' = terr
       ELSE /\ termResult' = [termResult EXCEPT ![t] = "false"]
            /\ Abort(t, TerminationFailure)
            /\ UNCHANGED signals
    /\ UNCHANGED << fnVars, inputVars, wrkVars, mainVars, found, toolRuns, warmup, measuredDone, termBound,
                    proberVars, proc, bufferVars >>

\* ------------------------------------------------------- the prober path
\* Mutant of ProbeAttempt: no `return` after the annotation is published.
ProbeAttemptKeepsPolling(k) ==
    /\ ppc[k] = "polling"
    /\ \E ok \in (IF BoundProcs = {} THEN {FALSE} ELSE BOOLEAN) :
          /\ attempts' = [attempts EXCEPT ![k] = attempts[k] + 1]
          /\ ppc' = [ppc EXCEPT ![k] =
                       IF attempts[k] + 1 < ProbeAttempts THEN "polling"
                       ELSE IF ok \/ published[k] > 0 THEN "done" ELSE "aborted"]
          /\ IF ok
             THEN /\ timeToFirstResponseOutput' = k
                  /\ published' = [published EXCEPT ![k] = published[k] + 1]
             ELSE UNCHANGED << timeToFirstResponseOutput, published >>
    /\ UNCHANGED << fnVars, inputVars, wrkVars, mainVars, testerVars, wait, proc, signals,
                    testerOutput >>

\* One iteration of timeToFirstResponseThread's loop: urlopen(url) answers 200 and
\* the annotation is published, or the attempt fails (an IOError, then a 10 ms
\* sleep, or an answer other than 200); the last failed attempt is followed by
\* mx.abort.
ProbeAttempt(k) ==
    /\ ppc[k] = "polling"
    /\ \E ok \in (IF BoundProcs = {} THEN {FALSE} ELSE BOOLEAN) :
          IF ok
          THEN /\ timeToFirstResponseOutput' = k
               /\ published' = [published EXCEPT ![k] = published[k] + 1]
               /\ ppc' = [ppc EXCEPT ![k] = "done"]
               /\ attempts' = attempts
          ELSE /\ attempts' = [attempts EXCEPT ![k] = attempts[k] + 1]
               /\ ppc' = [ppc EXCEPT ![k] =
                            IF attempts[k] + 1 < ProbeAttempts THEN "polling"
                            ELSE "aborted"]
               /\ UNCHANGED << timeToFirstResponseOutput, published >>
    /\ UNCHANGED << fnVars, inputVars, wrkVars, mainVars, testerVars, wait, proc, signals,
                    testerOutput >>

\* ------------------------------------------------------ the primary path
LastStage == IF native THEN Len(stages) ELSE 1

\* where the primary path goes when a stage's command has returned status rc
AfterStage(rc, nonZeroIsFatal) ==
    IF rc # 0 /\ nonZeroIsFatal THEN "aborted"
    ELSE IF stage < LastStage THEN "stage"
    ELSE "merge"

\* Mutant of Run: the tester path is started whatever the mode.
RunStartsTesterInEveryMode ==
    /\ mainPc = "run"
    /\ stage' = 1
    /\ mainPc' = (IF native THEN "stage" ELSE "launch")
    /\ StartTester(1)
    /\ UNCHANGED << fnVars, inputVars, wrkVars, result, steps, stageRet, terr, found, toolRuns, warmup,
                    measuredDone, termResult, termBound, proberVars, proc, signals,
                    bufferVars >>

\* run(): outside native mode the tester path is started here, before the single
\* launch of the server by the inherited run(); in native mode the stages follow.
Run ==
    /\ mainPc = "run"
    /\ stage' = 1
    /\ IF native
       THEN mainPc' = "stage" /\ UNCHANGED << tpc, wait >>
       ELSE mainPc' = "launch" /\ StartTester(1)
    /\ UNCHANGED << fnVars, inputVars, wrkVars, result, steps, stageRet, terr, found, toolRuns, warmup,
                    measuredDone, termResult, termBound, proberVars, proc, signals,
                    bufferVars >>

\* run_stage(stage, ...): a build stage only runs the given command; a run stage
\* first starts the tester path.
RunStage ==
    /\ mainPc = "stage"
    /\ IF IsBuildStage(stages[stage])
       THEN /\ mainPc' = "build"
            /\ steps' = [steps EXCEPT ![stage] = Append(@, "build")]
            /\ UNCHANGED << tpc, wait >>
       ELSE /\ StartTester(stage)
            /\ steps' = [steps EXCEPT ![stage] = Append(@, "tester")]
            /\ mainPc' = IF IsAgentStage(stages[stage]) THEN "prober" ELSE "launch"
    /\ UNCHANGED << fnVars, inputVars, wrkVars, stage, result, stageRet, terr, found, toolRuns, warmup,
                    measuredDone, termResult, termBound, proberVars, proc, signals,
                    bufferVars >>

\* NativeImageBenchmarkMixin.run_stage: mx.run(command, ...) returns the build's status
BuildReturn ==
    /\ mainPc = "build"
    /\ \E rc \in ExitStatuses, nonZeroIsFatal \in BOOLEAN :
          /\ mainPc' = AfterStage(rc, nonZeroIsFatal)
          /\ stage' = IF AfterStage(rc, nonZeroIsFatal) = "stage" THEN stage + 1
                      ELSE stage
          /\ IF AfterStage(rc, nonZeroIsFatal) = "aborted"
             THEN UNCHANGED << steps, stageRet >>
             ELSE /\ steps' = [steps EXCEPT ![stage] = Append(@, "return")]
                  /\ stageRet' = [stageRet EXCEPT ![stage] = rc]
    /\ UNCHANGED << fnVars, inputVars, wrkVars, result, testerVars, wait, proberVars, proc, signals,
                    bufferVars >>

\* Mutant of StartProber: the polling loop runs in the calling path, which returns
\* only when the loop has ended (no server is up yet: every attempt fails).
StartProberSynchronous ==
    /\ mainPc = "prober"
    /\ mainPc' = "launch"
    /\ \E nameInCmd \in BOOLEAN :
          IF nameInCmd
          THEN /\ ppc' = [ppc EXCEPT ![stage] = "aborted"]
               /\ attempts' = [attempts EXCEPT ![stage] = ProbeAttempts]
          ELSE UNCHANGED << ppc, attempts >>
    /\ published' = published
    /\ steps' = [steps EXCEPT ![stage] = Append(@, "timeToFirstResponse")]
    /\ UNCHANGED << fnVars, inputVars, wrkVars, stage, result, stageRet, testerVars, wait, proc, signals,
                    bufferVars >>

\* timeToFirstResponse(server_command, self): a prober path is started when the
\* microservice name occurs in the command; the command is returned at once.
StartProber ==
    /\ mainPc = "prober"
    /\ mainPc' = "launch"
    /\ \E nameInCmd \in BOOLEAN :
          IF nameInCmd
          THEN /\ ppc' = [ppc EXCEPT ![stage] = "polling"]
               /\ attempts' = [attempts EXCEPT ![stage] = 0]
          ELSE UNCHANGED << ppc, attempts >>
    /\ published' = published
    /\ steps' = [steps EXCEPT ![stage] = Append(@, "timeToFirstResponse")]
    /\ UNCHANGED << fnVars, inputVars, wrkVars, stage, result, stageRet, testerVars, wait, proc, signals,
                    bufferVars >>

\* mx.run(server_command, ...) creates the server process ...
Launch ==
    /\ mainPc = "launch"
    /\ mainPc' = "wait"
    /\ \E d \in 0..MaxDelay : proc' = [proc EXCEPT ![stage] = Starting(d)]
    /\ steps' = [steps EXCEPT ![stage] = Append(@, "launch")]
    /\ UNCHANGED << fnVars, inputVars, wrkVars, stage, result, stageRet, testerVars, wait, proberVars,
                    signals, bufferVars >>

\* Mutant of ServerReturn: the process is started but not waited for.
ServerReturnWithoutWaiting ==
    /\ mainPc = "wait"
    /\ proc[stage].st # "none"
    /\ \E nonZeroIsFatal \in BOOLEAN :
          LET rc == proc[stage].rc IN
          /\ mainPc' = AfterStage(rc, nonZeroIsFatal)
          /\ stage' = IF AfterStage(rc, nonZeroIsFatal) = "stage" THEN stage + 1
                      ELSE stage
          /\ IF AfterStage(rc, nonZeroIsFatal) = "aborted"
             THEN UNCHANGED << steps, stageRet >>
             ELSE /\ steps' = [steps EXCEPT ![stage] = Append(@, "return")]
                  /\ stageRet' = [stageRet EXCEPT ![stage] = rc]
    /\ UNCHANGED << fnVars, inputVars, wrkVars, result, testerVars, wait, proberVars, proc, signals,
                    bufferVars >>

\* ... and returns that process's exit status once it has exited.
ServerReturn ==
    /\ mainPc = "wait"
    /\ proc[stage].st = "exited"
    /\ \E nonZeroIsFatal \in BOOLEAN :
          LET rc == proc[stage].rc IN
          /\ mainPc' = AfterStage(rc, nonZeroIsFatal)
          /\ stage' = IF AfterStage(rc, nonZeroIsFatal) = "stage" THEN stage + 1
                      ELSE stage
          /\ IF AfterStage(rc, nonZeroIsFatal) = "aborted"
             THEN UNCHANGED << steps, stageRet >>
             ELSE /\ steps' = [steps EXCEPT ![stage] = Append(@, "return")]
                  /\ stageRet' = [stageRet EXCEPT ![stage] = rc]
    /\ UNCHANGED << fnVars, inputVars, wrkVars, result, testerVars, wait, proberVars, proc, signals,
                    bufferVars >>

Finished(pc) == pc \in {"idle", "done", "aborted"}

\* The pieces of text the harness handles, as tokens: the data of the capture the
\* measured run of tester t wrote, the annotation prober k published (the initial ''
\* contributes nothing), the benchmarked process's own output.
TesterText(t) == << <<"tester", t>> >>
FirstResponseText(k) == IF k = 0 THEN << >> ELSE << <<"first", k>> >>
ApplicationText(k) == << <<"application", k>> >>

\* What the inherited runAndReturnStdOut returns: (ret_code, applicationOutput, dims)
Inherited(rc) == [rc |-> rc, out |-> ApplicationText(stage), dims |-> "dims"]

\* Mutants of Combined: another order of the three texts; the annotation left out.
CombinedApplicationFirst(inh) ==
    [rc |-> inh.rc,
     text |-> inh.out \o TesterText(testerOutput)
                \o FirstResponseText(timeToFirstResponseOutput),
     dims |-> inh.dims]
CombinedNoAnnotation(inh) ==
    [rc |-> inh.rc, text |-> TesterText(testerOutput) \o inh.out, dims |-> inh.dims]

\* return ret_code, self.testerOutput.underlying.data
\*                  + self.timeToFirstResponseOutput + applicationOutput, dims
Combined(inh) ==
    [rc |-> inh.rc,
     text |-> TesterText(testerOutput) \o FirstResponseText(timeToFirstResponseOutput)
                \o inh.out,
     dims |-> inh.dims]

\* runAndReturnStdOut after the inherited call has returned.  The initial '' of
\* testerOutput has no attribute `underlying`.
Merge ==
    /\ mainPc = "merge"
    /\ IF testerOutput = 0
       THEN mainPc' = "error" /\ result' = result
       ELSE /\ mainPc' = "done"
            /\ \E rc \in ExitStatuses :
                  result' = [tester |-> testerOutput,
                             first |-> timeToFirstResponseOutput,
                             app |-> stage,
                             liveTesters |-> { t \in Testers : ~Finished(tpc[t]) },
                             liveProbers |-> { k \in Testers : ~Finished(ppc[k]) },
                             inherited |-> Inherited(rc),
                             returned |-> Combined(Inherited(rc))]
    /\ UNCHANGED << fnVars, inputVars, wrkVars, stage, steps, stageRet, testerVars, wait, proberVars, proc,
                    signals, bufferVars >>

\* ------------------------------------------------- the Wrk tester's runTester
\* The workload configuration: each key is absent, present with an empty (falsy)
\* value, or present with a value.  Only the presence of most keys matters to the
\* code; the warm-up durations are also tested for truth.
ConfigKeys == { "connections", "threads", "script", "duration", "warmup-duration",
                "warmup-duration-native-image", "rate", "target-url", "target-path" }
WarmupKeys == { "warmup-duration", "warmup-duration-native-image" }
Configs == { c \in [ConfigKeys -> {"absent", "empty", "set"}] :
               \A key \in ConfigKeys \ WarmupKeys : c[key] # "empty" }
NoConfig == [key \in ConfigKeys |-> "absent"]
\* key in config
Has(cfg, key) == cfg[key] # "absent"

\* Command words: "--" + name, str(config[key]), str(config[a] + config[b]),
\* str(self.getScriptPath(config)), os.path.join(wrkDirectory, "wrk-" + distro)
Flag(name) == << "--", name >>
Str(key) == << "str", key >>
StrSum(a, b) == << "str", a, b >>
ScriptPath == << "str", "getScriptPath" >>
WrkPath(distro) == << "wrk", distro >>

TargetUrlMissing == "target-url not specified in Wrk configuration."
RateMissing == "rate not specified in Wrk2 configuration."
UnsupportedOs == "not supported in this os"
OsNames == { "linux", "darwin", "other" }

\* for optional in ["connections", "threads"]: ...; if "script" in config: ...
Optionals(cfg, cmd) ==
    LET c1 == IF Has(cfg, "connections")
              THEN cmd \o << Flag("connections"), Str("connections") >> ELSE cmd
        c2 == IF Has(cfg, "threads")
              THEN c1 \o << Flag("threads"), Str("threads") >> ELSE c1
    IN  IF Has(cfg, "script") THEN c2 \o << Flag("script"), ScriptPath >> ELSE c2

\* Mutant of SetupWrkCmd: no mx.abort when target-url is missing.
SetupWrkCmdUnchecked(cfg, cmd) ==
    LET c == Optionals(cfg, cmd)
    IN  IF Has(cfg, "target-url")
        THEN [list |-> Append(c, IF Has(cfg, "target-path")
                                 THEN StrSum("target-url", "target-path")
                                 ELSE Str("target-url")),
              err |-> ""]
        ELSE [list |-> c, err |-> ""]

\* BaseWrkBenchmarkSuite.setupWrkCmd(config, cmd): `list` is what the list object
\* passed as cmd holds afterwards (cmd += and cmd.append change it in place; on
\* success it is also the value returned), `err` the mx.abort message if any.
SetupWrkCmd(cfg, cmd) ==
    LET c == Optionals(cfg, cmd)
    IN  IF Has(cfg, "target-url")
        THEN [list |-> Append(c, IF Has(cfg, "target-path")
                                 THEN StrSum("target-url", "target-path")
                                 ELSE Str("target-url")),
              err |-> ""]
        ELSE [list |-> c, err |-> TargetUrlMissing]

\* self.setupWrkCmd(config) as runTester calls it.  BaseWrkBenchmarkSuite's method
\* runs on its default list object, which keeps what it is given; the Wrk2
\* override builds a new list, checks rate, and passes that list on.
SetupCall(suite, cfg, default) ==
    IF suite = "wrk1"
    THEN LET r == SetupWrkCmd(cfg, default)
         IN  [flags |-> r.list, default |-> r.list, err |-> r.err]
    ELSE IF Has(cfg, "rate")
         THEN LET r == SetupWrkCmd(cfg, << Flag("latency"), Flag("rate"), Str("rate") >>)
              IN  [flags |-> r.list, default |-> default, err |-> r.err]
         ELSE [flags |-> << >>, default |-> default, err |-> RateMissing]

\* Mutant of WarmupDuration: native mode falls back on warmup-duration when its
\* own key gives no value.
WarmupDurationFallsBack(nativeMode, cfg) ==
    IF nativeMode /\ cfg["warmup-duration-native-image"] = "set"
    THEN "warmup-duration-native-image"
    ELSE IF cfg["warmup-duration"] = "set" THEN "warmup-duration" ELSE "none"

\* Mutant of WarmupDuration: the mode is not looked at.
WarmupDurationIgnoresMode(nativeMode, cfg) ==
    IF cfg["warmup-duration"] = "set" THEN "warmup-duration" ELSE "none"

\* Lines 444-449: the key whose value is the warm-up duration, "none" when the
\* value selected for the mode is missing or falsy.
WarmupDuration(nativeMode, cfg) ==
    LET key == IF nativeMode THEN "warmup-duration-native-image" ELSE "warmup-duration"
    IN  IF cfg[key] = "set" THEN key ELSE "none"

WarmupCmd(path, key, flags) ==
    [run |-> "warmup", cmd |-> << path, Flag("duration"), Str(key) >> \o flags,
     out |-> "warmupOutput"]
MeasuredCmd(path, cfg, flags) ==
    [run |-> "measured",
     cmd |-> << path >> \o (IF Has(cfg, "duration")
                            THEN << Flag("duration"), Str("duration") >> ELSE << >>)
                        \o flags,
     out |-> "testerOutput"]

IdleWrk == [pc |-> "idle", wrkPath |-> << >>, wrkFlags |-> << >>]
CallEnded(os, cmds, end) == [os |-> os, cmds |-> cmds, end |-> end]
EndLast(end) == [runs EXCEPT ![Len(runs)].end = end]

\* runTester() up to its first mx.run
WrkRunTester ==
    /\ wrk.pc = "idle"
    /\ Len(runs) < MaxCalls
    /\ \E os \in OsNames :
          IF os = "other"
          THEN /\ runs' = Append(runs, CallEnded(os, << >>, UnsupportedOs))
               /\ UNCHANGED << wrk, defaultCmd, testerOutput >>
          ELSE LET path == WrkPath(IF os = "linux" THEN "linux" ELSE "macos")
                   r == SetupCall(kind, config, defaultCmd)
                   w == WarmupDuration(native, config)
               IN  /\ defaultCmd' = r.default
                   /\ IF r.err # ""
                      THEN /\ runs' = Append(runs, CallEnded(os, << >>, r.err))
                           /\ UNCHANGED << wrk, testerOutput >>
                      ELSE IF w # "none"
                      THEN /\ runs' = Append(runs, CallEnded(os,
                                         << WarmupCmd(path, w, r.flags) >>, "running"))
                           /\ wrk' = [pc |-> "warmup", wrkPath |-> path,
                                      wrkFlags |-> r.flags]
                           /\ UNCHANGED testerOutput
                      ELSE /\ runs' = Append(runs, CallEnded(os,
                                         << MeasuredCmd(path, config, r.flags) >>,
                                         "running"))
                           /\ wrk' = [pc |-> "measured", wrkPath |-> path,
                                      wrkFlags |-> r.flags]
                           /\ testerOutput' = Len(runs) + 1
    /\ UNCHANGED << fnVars, inputVars, mainVars, testerVars, wait, proberVars, proc, signals,
                    timeToFirstResponseOutput, kind, config >>

\* mx.run(warmupWrkCmd, ...) returns (a non-zero status aborts); then the measured
\* command is built and run with a new capture in self.testerOutput.
WrkWarmupReturn ==
    /\ wrk.pc = "warmup"
    /\ \E rc \in ExitStatuses :
          IF rc = 0
          THEN /\ runs' = [runs EXCEPT ![Len(runs)].cmds =
                             Append(@, MeasuredCmd(wrk.wrkPath, config, wrk.wrkFlags))]
               /\ wrk' = [wrk EXCEPT !.pc = "measured"]
               /\ testerOutput' = Len(runs)
          ELSE /\ runs' = EndLast(ExternalToolFailure)
               /\ wrk' = IdleWrk
               /\ UNCHANGED testerOutput
    /\ UNCHANGED << fnVars, inputVars, mainVars, testerVars, wait, proberVars, proc, signals,
                    timeToFirstResponseOutput, kind, config, defaultCmd >>

\* mx.run(runWrkCmd, ...) returns, and runTester with it
WrkMeasuredReturn ==
    /\ wrk.pc = "measured"
    /\ \E rc \in ExitStatuses :
          runs' = EndLast(IF rc = 0 THEN "returned" ELSE ExternalToolFailure)
    /\ wrk' = IdleWrk
    /\ UNCHANGED << fnVars, inputVars, mainVars, testerVars, wait, proberVars, proc, signals,
                    bufferVars, kind, config, defaultCmd >>

\* no Wrk call is followed: the state of a suite whose runTester is left abstract
NoWrk ==
    /\ kind = "wrk1"
    /\ config = NoConfig
    /\ defaultCmd = << >>
    /\ wrk = IdleWrk
    /\ runs = << >>

\* --------------------------------------------- BaseJMeterBenchmarkSuite.run
\* The data points the inherited run() returned are numbered in their order.
Collected(n) == [i \in 1..n |-> i]

\* int(len(results) * .10): the double product is never below len/10 and exceeds
\* it by less than one part in 10^15, so the truncation is the integer quotient.
TailDatapointsToSkip(results) == Len(results) \div 10

\* Mutants of Trimmed: the head is dropped instead of the tail; nothing is dropped.
TrimmedHead(results) ==
    SubSeq(results, TailDatapointsToSkip(results) + 1, Len(results))
TrimmedNothing(results) == results

\* results[:len(results) - self.tailDatapointsToSkip(results)]
Trimmed(results) == SubSeq(results, 1, Len(results) - TailDatapointsToSkip(results))

\* self.addAverageAcrossLatestResults(results, "throughput") appends the average of
\* the latest warm-up data points, when there are any, to the list it is given
WithAverage(results) == IF results = << >> THEN results ELSE Append(results, "average")

NoJMeter == [pc |-> "idle", collected |-> << >>, results |-> << >>]

\* results = results[:len(results) - self.tailDatapointsToSkip(results)]
JMeterTrim ==
    /\ jmeter.pc = "collected"
    /\ jmeter' = [jmeter EXCEPT !.pc = "trimmed", !.results = Trimmed(jmeter.results)]
    /\ UNCHANGED << engine, bench, flagCall, probeCall, inputVars, wrkVars, mainVars, testerVars, wait, proberVars, proc,
                    signals, bufferVars >>

\* self.addAverageAcrossLatestResults(results, "throughput"); return results
JMeterAverage ==
    /\ jmeter.pc = "trimmed"
    /\ jmeter' = [jmeter EXCEPT !.pc = "returned",
                                !.results = WithAverage(jmeter.results)]
    /\ UNCHANGED << engine, bench, flagCall, probeCall, inputVars, wrkVars, mainVars, testerVars, wait, proberVars, proc,
                    signals, bufferVars >>

\* ------------------------------------------------------ the metric rules
\* A captured output is a sequence of lines, a line a sequence of tokens: a token is
\* one character (a blank, a digit, "." or ",") or a piece of literal text.
Blank == " "
Digits == { "0", "1", "2", "3", "4", "5", "6", "7", "8", "9" }
Separators == { ".", "," }

\* Pattern elements: literal text, \s* and \s+, \d*[.,]?\d* and \d+ as named groups,
\* and $.
Lit(tok) == [k |-> "lit", tok |-> tok, group |-> ""]
Ws(min) == [k |-> "ws", tok |-> min, group |-> ""]
Num(group) == [k |-> "num", tok |-> "", group |-> group]
Digs(group) == [k |-> "int", tok |-> "", group |-> group]
End == [k |-> "end", tok |-> "", group |-> ""]

\* Mutant of ThroughputPattern: no $ at the end.
ThroughputPatternUnanchored == << Lit("Requests/sec:"), Ws(0), Num("throughput") >>

\* r"^Requests/sec:\s*(?P<throughput>\d*[.,]?\d*)$"
ThroughputPattern == << Lit("Requests/sec:"), Ws(0), Num("throughput"), End >>
\* r"^\s*(?P<percentile>\d*[.,]?\d*)%\s+(?P<latency>\d*[.,]?\d*)ms$"
LatencyPattern ==
    << Ws(0), Num("percentile"), Lit("%"), Ws(1), Num("latency"), Lit("ms"), End >>
\* r"^First response received in (?P<startup>\d*[.,]?\d*) ms"
StartupPattern == << Lit("First response received in "), Num("startup"), Lit(" ms") >>
\* r"^summary \+\s+(?P<requests>[0-9]+) in (?P<hours>\d+):...:(?P<seconds>\d\d) =\s+
\*   (?P<throughput>\d*[.,]?\d*)/s Avg:\s+(?P<avg>\d+) Min:\s+(?P<min>\d+) Max:\s+
\*   (?P<max>\d+) Err:\s+(?P<errors>\d+) \((?P<errpct>\d*[.,]?\d*)\%\)"
SummaryPattern ==
    << Lit("summary +"), Ws(1), Digs("requests"), Lit(" in "), Lit("hh:mm:ss"), Lit(" ="),
       Ws(1), Num("throughput"), Lit("/s Avg:"), Ws(1), Digs("avg"), Lit(" Min:"), Ws(1),
       Digs("min"), Lit(" Max:"), Ws(1), Digs("max"), Lit(" Err:"), Ws(1), Digs("errors"),
       Lit(" ("), Num("errpct"), Lit("%)") >>

\* The longest run of tokens of `class` in `line` from position j on.
RECURSIVE RunLength(_, _, _)
RunLength(line, j, class) ==
    IF j <= Len(line) /\ line[j] \in class THEN 1 + RunLength(line, j + 1, class) ELSE 0

SeparatorsIn(s) == Cardinality({ i \in 1..Len(s) : s[i] \in Separators })
\* what \d*[.,]?\d* matches in full: digits with at most one separator
IsNumberShape(s) ==
    /\ \A i \in 1..Len(s) : s[i] \in Digits \cup Separators
    /\ SeparatorsIn(s) <= 1

NoMatch == [matched |-> FALSE, groups |-> << >>]

\* re's match of the pattern at the start of the line (^): element i of the pattern
\* at position j of the line, with the groups captured so far.  Every repetition is
\* followed by an element that none of its tokens can start, so the longest run is
\* the only one a backtracking match can end with.
RECURSIVE MatchFrom(_, _, _, _, _)
MatchFrom(pat, i, line, j, groups) ==
    IF i > Len(pat) THEN [matched |-> TRUE, groups |-> groups]
    ELSE LET e == pat[i] IN
         CASE e.k = "lit" ->
                  IF j <= Len(line) /\ line[j] = e.tok
                  THEN MatchFrom(pat, i + 1, line, j + 1, groups) ELSE NoMatch
           [] e.k = "ws" ->
                  LET r == RunLength(line, j, {Blank})
                  IN  IF r >= e.tok THEN MatchFrom(pat, i + 1, line, j + r, groups)
                      ELSE NoMatch
           [] e.k = "num" ->
                  LET r == RunLength(line, j, Digits \cup Separators)
                      text == SubSeq(line, j, j + r - 1)
                  IN  IF IsNumberShape(text)
                      THEN MatchFrom(pat, i + 1, line, j + r,
                                     Append(groups, << e.group, text >>))
                      ELSE NoMatch
           [] e.k = "int" ->
                  LET r == RunLength(line, j, Digits)
                      text == SubSeq(line, j, j + r - 1)
                  IN  IF r >= 1
                      THEN MatchFrom(pat, i + 1, line, j + r,
                                     Append(groups, << e.group, text >>))
                      ELSE NoMatch
           [] e.k = "end" ->
                  IF j = Len(line) + 1 THEN MatchFrom(pat, i + 1, line, j, groups)
                  ELSE NoMatch

Match(pat, line) == MatchFrom(pat, 1, line, 1, << >>)

\* m[name] of a match's groupdict
Group(m, name) ==
    LET i == CHOOSE i \in 1..Len(m.groups) : m.groups[i][1] = name IN m.groups[i][2]

\* float(text) raises ValueError unless text is digits with at most a "." among
\* them and at least one digit
Floatable(text) ==
    /\ \A i \in 1..Len(text) : text[i] \in Digits \cup {"."}
    /\ SeparatorsIn(text) <= 1
    /\ \E i \in 1..Len(text) : text[i] \in Digits
\* the value of float(text): the digits before and after the "."; zeros that do not
\* change the value are not told apart from the tokens explored
Float(text) ==
    LET dot == IF \E i \in 1..Len(text) : text[i] = "."
               THEN CHOOSE i \in 1..Len(text) : text[i] = "." ELSE Len(text) + 1
    IN  [whole |-> SubSeq(text, 1, dot - 1), frac |-> SubSeq(text, dot + 1, Len(text))]

\* a dimension the rule does not set
NoFloat == [whole |-> << >>, frac |-> << >>]
NoIteration == -1

\* The replacement dictionaries of the rules (benchmark and bench-suite are the same
\* in every record of a suite), with the groups of match m put in.  LatencyRecordSwapped
\* is a mutant of LatencyRecord: the two groups change places.
ThroughputRecord(m) ==
    [name |-> "throughput", value |-> Float(Group(m, "throughput")), unit |-> "op/s",
     better |-> "higher", percentile |-> NoFloat, iteration |-> NoIteration, warnings |-> << >>]
LatencyRecordSwapped(m) ==
    [name |-> "sample-time", value |-> Float(Group(m, "percentile")), unit |-> "ms",
     better |-> "lower", percentile |-> Float(Group(m, "latency")), iteration |-> NoIteration,
     warnings |-> << >>]
LatencyRecord(m) ==
    [name |-> "sample-time", value |-> Float(Group(m, "latency")), unit |-> "ms",
     better |-> "lower", percentile |-> Float(Group(m, "percentile")), iteration |-> NoIteration,
     warnings |-> << >>]
StartupRecord(m) ==
    [name |-> "startup", value |-> Float(Group(m, "startup")), unit |-> "ms",
     better |-> "lower", percentile |-> NoFloat, iteration |-> NoIteration, warnings |-> << >>]
SummaryRecord(m, iteration) ==
    [name |-> "warmup", value |-> Float(Group(m, "throughput")), unit |-> "op/s",
     better |-> "higher", percentile |-> NoFloat, iteration |-> iteration,
     warnings |-> Group(m, "errors")]

RuleNames == { "throughput", "latency", "startup", "summary" }
PatternOf(rule) ==
    CASE rule = "throughput" -> ThroughputPattern
      [] rule = "latency" -> LatencyPattern
      [] rule = "startup" -> StartupPattern
      [] rule = "summary" -> SummaryPattern
\* the group each rule passes to float
FloatGroups(rule) ==
    CASE rule = "throughput" -> { "throughput" }
      [] rule = "latency" -> { "latency", "percentile" }
      [] rule = "startup" -> { "startup" }
      [] rule = "summary" -> { "throughput" }
RecordOf(rule, m, iteration) ==
    CASE rule = "throughput" -> ThroughputRecord(m)
      [] rule = "latency" -> LatencyRecord(m)
      [] rule = "startup" -> StartupRecord(m)
      [] rule = "summary" -> SummaryRecord(m, iteration)

\* Mutant of FirstIteration: the count goes on from the matches of earlier parses.
FirstIterationContinues(e) == e.matched

\* "$iteration" of the first match of one parse: rule.parse enumerates the matches
\* of that parse from 0
FirstIteration(e) == 0

\* rule.parse(text): the matches of the rule's pattern in the text, in the order of
\* their lines, each turned into a record; a group float() rejects raises.
RECURSIVE ParseFrom(_, _, _, _)
ParseFrom(rule, text, l, iteration) ==
    IF l > Len(text) THEN [records |-> << >>, error |-> FALSE]
    ELSE LET m == Match(PatternOf(rule), text[l]) IN
         IF ~m.matched THEN ParseFrom(rule, text, l + 1, iteration)
         ELSE IF \E g \in FloatGroups(rule) : ~Floatable(Group(m, g))
         THEN [records |-> << >>, error |-> TRUE]
         ELSE LET rest == ParseFrom(rule, text, l + 1, iteration + 1)
              IN  [records |-> << RecordOf(rule, m, iteration) >> \o rest.records,
                   error |-> rest.error]

\* Mutant of ApplyFrom: the text is gone through line by line and every rule is
\* tried on each line, so that the records come in the order of their lines.
RECURSIVE ApplyFromByLine(_, _, _, _)
ApplyFromByLine(rules, r, text, first) ==
    IF text = << >> THEN [records |-> << >>, error |-> FALSE]
    ELSE IF r > Len(rules) THEN ApplyFromByLine(rules, 1, Tail(text), first)
    ELSE LET head == ParseFrom(rules[r], << Head(text) >>, 1, first)
             rest == ApplyFromByLine(rules, r + 1, text, first)
         IN  [records |-> head.records \o rest.records,
              error |-> head.error \/ rest.error]

\* for rule in rules: datapoints += rule.parse(out)
RECURSIVE ApplyFrom(_, _, _, _)
ApplyFrom(rules, r, text, first) ==
    IF r > Len(rules) THEN [records |-> << >>, error |-> FALSE]
    ELSE LET head == ParseFrom(rules[r], text, 1, first)
             rest == ApplyFrom(rules, r + 1, text, first)
         IN  [records |-> head.records \o rest.records,
              error |-> head.error \/ rest.error]

\* what applying the rules to the text gives: the records, or no record and
\* error when a conversion raised
Apply(rules, text, first) ==
    LET a == ApplyFrom(rules, 1, text, first)
    IN  IF a.error THEN [records |-> << >>, error |-> TRUE] ELSE a

\* rules: the names of the rules rules() returns, in its order; out: the captured
\* output; parsed: what each application of the rules to `out` gave; log: the
\* applications made so far, to `out` ("here") or to another output ("elsewhere");
\* matched: the records all of them produced
NoEngine == [rules |-> << >>, out |-> << >>, parsed |-> << >>, log |-> << >>,
             matched |-> 0]
Elsewhere(e) == Cardinality({ i \in 1..Len(e.log) : e.log[i] = "elsewhere" })

\* The rules are applied to the captured output.
ApplyRules ==
    /\ engine.rules # << >>
    /\ Len(engine.parsed) < MaxParses
    /\ LET res == Apply(engine.rules, engine.out, FirstIteration(engine))
       IN  engine' = [engine EXCEPT
                        !.parsed = Append(@, res),
                        !.log = Append(@, "here"),
                        !.matched = @ + Len(res.records)]
    /\ UNCHANGED << jmeter, bench, flagCall, probeCall, inputVars, wrkVars, mainVars, testerVars, wait, proberVars,
                    proc, signals, bufferVars >>

\* Lines of the kinds the tools print, and one the rules know nothing of.  The
\* second summary line is the example of the comment at line 342 ("summary =").
ThroughputSample == << "Requests/sec:", Blank, "5", ".", "3" >>
LatencySample == << Blank, "5", "%", Blank, "3", "ms" >>
StartupSample == << "First response received in ", "3", ".", "5", " ms" >>
SummaryTail ==
    << Blank, "7", "0", " in ", "hh:mm:ss", " =", Blank, "4", "7", ".", "6", "/s Avg:",
       Blank, "1", "2", " Min:", Blank, "3", " Max:", Blank, "5", " Err:", Blank, "0",
       " (", "0", ".", "0", "%)" >>
SummarySample == << "summary +" >> \o SummaryTail
SummaryTotalSample == << "summary =" >> \o SummaryTail
SampleLines == { ThroughputSample, LatencySample, StartupSample, SummarySample,
                 SummaryTotalSample, << "x" >> }
Texts == UNION { [1..n -> SampleLines] : n \in 0..MaxLines }

\* rules() of BaseMicroserviceBenchmarkSuite and of the JMeter, Wrk1 and Wrk2 suites
SuiteRules == { << "startup" >>, << "summary", "startup" >>,
                << "throughput", "startup" >>, << "latency", "startup" >> }

\* The same rules are applied to another captured output.
ApplyElsewhere ==
    /\ engine.rules # << >>
    /\ Elsewhere(engine) < MaxParses
    /\ \E text \in Texts :
          LET res == Apply(engine.rules, text, FirstIteration(engine))
          IN  engine' = [engine EXCEPT !.log = Append(@, "elsewhere"),
                                       !.matched = @ + Len(res.records)]
    /\ UNCHANGED << jmeter, bench, flagCall, probeCall, inputVars, wrkVars, mainVars, testerVars, wait, proberVars,
                    proc, signals, bufferVars >>

\* ---------------------------------------------------- benchMicroserviceName
\* A suite name is a sequence of characters.  s.split("-"): the pieces between the
\* hyphens, empty ones included; a string without hyphen is its own single piece.
HyphensIn(s) == { i \in 1..Len(s) : s[i] = "-" }
RECURSIVE Split(_)
Split(s) ==
    IF HyphensIn(s) = {} THEN << s >>
    ELSE LET i == CHOOSE h \in HyphensIn(s) : \A g \in HyphensIn(s) : h <= g
         IN  << SubSeq(s, 1, i - 1) >> \o Split(SubSeq(s, i + 1, Len(s)))

InvalidSuiteName == "Invalid benchmark suite name: "

\* if len(self.benchSuiteName().split('-')) < 2: mx.abort(...)
\* return self.benchSuiteName().split("-")[0]
BenchMicroserviceNameOf(name) ==
    IF Len(Split(name)) < 2
    THEN [pc |-> "aborted", suiteName |-> name, microservice |-> << >>,
          err |-> InvalidSuiteName]
    ELSE [pc |-> "returned", suiteName |-> name, microservice |-> Split(name)[1],
          err |-> ""]

NoBench == [pc |-> "idle", suiteName |-> << >>, microservice |-> << >>, err |-> ""]

BenchMicroserviceName ==
    /\ bench.pc = "called"
    /\ bench' = BenchMicroserviceNameOf(bench.suiteName)
    /\ UNCHANGED << jmeter, engine, flagCall, probeCall, inputVars, wrkVars, mainVars, testerVars, wait,
                    proberVars, proc, signals, bufferVars >>

\* ------------------------------------------------------- the run's flags
\* An argument is a sequence of tokens: a flag's literal prefix, a blank, a comma
\* or a word.
StagesPrefix == "-Dnative-image.benchmark.stages="
OutputDirPrefix == "-Dnative-image.benchmark.benchmark-output-dir="
SkipAgentAssertionsPrefix == "-Dnative-image.benchmark.skip-agent-assertions="
StagesOnce == "Native Image benchmark stages should only be specified once."

\* arg.startswith(prefix)
StartsWith(arg, prefix) == Len(arg) > 0 /\ arg[1] = prefix

\* s.split(sep): the pieces between the separators, empty ones included.
RECURSIVE SplitBy(_, _)
SplitBy(s, sep) ==
    LET at == { i \in 1..Len(s) : s[i] = sep }
    IN  IF at = {} THEN << s >>
        ELSE LET i == CHOOSE h \in at : \A g \in at : h <= g
             IN  << SubSeq(s, 1, i - 1) >> \o SplitBy(SubSeq(s, i + 1, Len(s)), sep)

\* arg.split(' ')[0].split(prefix)[1], for an argument that starts with the prefix
ParsedValue(prefix, arg) == SplitBy(SplitBy(arg, Blank)[1], prefix)[2]

\* for arg in args: if arg.startswith(prefix): ...
\*     if parsed not in ret: ret.append(parsed)
RECURSIVE ParsePrefixedArgsFrom(_, _, _)
ParsePrefixedArgsFrom(prefix, args, ret) ==
    IF args = << >> THEN ret
    ELSE LET arg == Head(args)
             seen == { ret[i] : i \in 1..Len(ret) }
             next == IF StartsWith(arg, prefix) /\ ParsedValue(prefix, arg) \notin seen
                     THEN Append(ret, ParsedValue(prefix, arg))
                     ELSE ret
         IN  ParsePrefixedArgsFrom(prefix, Tail(args), next)

ParsePrefixedArgs(prefix, args) == ParsePrefixedArgsFrom(prefix, args, << >>)

\* parse_prefixed_arg: abort on more than one value, None (no element) on none.
ParsePrefixedArg(prefix, args, errorMsg) ==
    LET ret == ParsePrefixedArgs(prefix, args)
    IN  IF Len(ret) > 1 THEN [value |-> << >>, err |-> errorMsg]
        ELSE IF Len(ret) < 1 THEN [value |-> << >>, err |-> ""]
        ELSE [value |-> << ret[1] >>, err |-> ""]

NoFlags == [pc |-> "idle", args |-> << >>, stages |-> << >>, dir |-> << >>,
            skip |-> "None", err |-> ""]

\* return parsed_arg.split(',') if parsed_arg else [the five stages]
\* (None and the empty string both give the default list)
StagesOf(args) ==
    LET parsed == ParsePrefixedArg(StagesPrefix, args, StagesOnce)
    IN  IF parsed.err # "" THEN [pc |-> "aborted", stages |-> << >>, err |-> parsed.err]
        ELSE IF parsed.value = << >> \/ parsed.value[1] = << >>
        THEN [pc |-> "stages", stages |-> DefaultStages, err |-> ""]
        ELSE [pc |-> "stages", stages |-> SplitBy(parsed.value[1], ","), err |-> ""]

\* if parsed_args: return parsed_args[0] else: return None
BenchmarkOutputDirOf(args) ==
    LET parsed_args == ParsePrefixedArgs(OutputDirPrefix, args)
    IN  IF parsed_args # << >> THEN << parsed_args[1] >> ELSE << >>

\* True if 'true' or 'True' was given, else False if 'false' or 'False' was, else None
SkipAgentAssertionsOf(args) ==
    LET parsed_args == ParsePrefixedArgs(SkipAgentAssertionsPrefix, args)
        given == { parsed_args[i] : i \in 1..Len(parsed_args) }
    IN  IF << "true" >> \in given \/ << "True" >> \in given THEN "True"
        ELSE IF << "false" >> \in given \/ << "False" >> \in given THEN "False"
        ELSE "None"

FlagFrame ==
    UNCHANGED << jmeter, engine, bench, probeCall, inputVars, wrkVars, mainVars,
                 testerVars, wait,
                 proberVars, proc, signals, bufferVars >>

StagesCall ==
    /\ flagCall.pc = "called"
    /\ LET r == StagesOf(flagCall.args)
       IN  flagCall' = [flagCall EXCEPT !.pc = r.pc, !.stages = r.stages, !.err = r.err]
    /\ FlagFrame

BenchmarkOutputDir ==
    /\ flagCall.pc = "called"
    /\ flagCall' = [flagCall EXCEPT !.pc = "dir", !.dir = BenchmarkOutputDirOf(flagCall.args)]
    /\ FlagFrame

SkipAgentAssertions ==
    /\ flagCall.pc = "called"
    /\ flagCall' = [flagCall EXCEPT !.pc = "skip", !.skip = SkipAgentAssertionsOf(flagCall.args)]
    /\ FlagFrame

\* ------------------------------------------------------ timeToFirstResponse
\* A server command is a list of words and a word a sequence of characters.
\* ''.join(cmd)
RECURSIVE Join(_)
Join(cmd) == IF cmd = << >> THEN << >> ELSE Head(cmd) \o Join(Tail(cmd))

\* name in text, for strings: text holds name as a run of consecutive characters
Occurs(name, text) ==
    \E i \in 0..(Len(text) - Len(name)) : SubSeq(text, i + 1, i + Len(name)) = name

\* Mutant of NameInCommand: the name is looked for in each word of the command.
NameInSomeWord(name, cmd) == \E w \in 1..Len(cmd) : Occurs(name, cmd[w])

\* if name in ''.join(cmd)
NameInCommand(name, cmd) == Occurs(name, Join(cmd))

NoProbeCall == [pc |-> "idle", suiteName |-> << >>, cmd |-> << >>, started |-> 0,
                ret |-> << >>, err |-> ""]

\* name = bmSuite.benchMicroserviceName() (which may abort); a prober thread is
\* started if the name is in the command; return cmd
TimeToFirstResponseOf(call) ==
    LET name == BenchMicroserviceNameOf(call.suiteName)
    IN  IF name.pc = "aborted"
        THEN [call EXCEPT !.pc = "aborted", !.err = name.err]
        ELSE [call EXCEPT !.pc = "returned",
                          !.started = IF NameInCommand(name.microservice, call.cmd)
                                      THEN 1 ELSE 0,
                          !.ret = call.cmd]

TimeToFirstResponse ==
    /\ probeCall.pc = "called"
    /\ probeCall' = TimeToFirstResponseOf(probeCall)
    /\ UNCHANGED << jmeter, engine, bench, flagCall, inputVars, wrkVars, mainVars, testerVars,
                    wait, proberVars, proc, signals, bufferVars >>

\* no pure function is applied
NoFn ==
    /\ jmeter = NoJMeter /\ engine = NoEngine /\ bench = NoBench
    /\ flagCall = NoFlags /\ probeCall = NoProbeCall

\* ----------------------------------------------------------- specification
NoResult == [tester |-> 0, first |-> 0, app |-> 0, liveTesters |-> {},
             liveProbers |-> {},
             inherited |-> [rc |-> 0, out |-> << >>, dims |-> ""],
             returned |-> [rc |-> 0, text |-> << >>, dims |-> ""]]

InitPaths ==
    /\ tpc = [t \in Testers |-> "idle"]
    /\ terr = [t \in Testers |-> ""]
    /\ wait = [t \in Testers |-> IdleFrame]
    /\ found = [t \in Testers |-> "pending"]
    /\ toolRuns = [t \in Testers |-> 0]
    /\ warmup = [t \in Testers |-> "unread"]
    /\ measuredDone = [t \in Testers |-> FALSE]
    /\ termResult = [t \in Testers |-> "none"]
    /\ termBound = [t \in Testers |-> << >>]
    /\ ppc = [k \in Testers |-> "idle"]
    /\ attempts = [k \in Testers |-> 0]
    /\ published = [k \in Testers |-> 0]
    /\ proc = [p \in ProcIds |-> NoProcess]
    /\ signals = {}
    /\ testerOutput = 0
    /\ timeToFirstResponseOutput = 0
    /\ result = NoResult
    /\ steps = [k \in Testers |-> << >>]
    /\ stageRet = [k \in Testers |-> NoStatus]

Init ==
    /\ native \in BOOLEAN
    /\ stages \in StageLists \cup { << >> }
    /\ native <=> stages # << >>
    /\ mainPc = "run"
    /\ stage = 0
    /\ InitPaths
    /\ NoWrk
    /\ NoFn

Next ==
    \/ Run
    \/ RunStage
    \/ BuildReturn
    \/ StartProber
    \/ Launch
    \/ ServerReturn
    \/ Merge
    \/ \E t \in Testers : WaitScan(t)
    \/ \E t \in Testers : WaitWake(t)
    \/ \E t \in Testers : TesterPortWaitReturn(t)
    \/ \E t \in Testers : RunTesterBegin(t)
    \/ \E t \in Testers : WarmupReturn(t)
    \/ \E t \in Testers : MeasuredReturn(t)
    \/ \E t \in Testers : TerminateReturn(t)
    \/ \E k \in Testers : ProbeAttempt(k)
    \/ \E p \in ProcIds : PortOpen(p)
    \/ \E p \in ProcIds : ProcExit(p)
    \/ Tick

Spec == Init /\ [][Next]_vars

\* ------------------------------------------- run() on the same suite object
\* run() is called again on the suite object once an invocation has returned and
\* its paths and processes have ended.  The paths, processes and results of the new
\* invocation start afresh; the fields of the object are what the last invocation
\* left: __init__ alone sets testerOutput and timeToFirstResponseOutput to '', and
\* neither run() nor runAndReturnStdOut resets them.
RunAgain ==
    /\ mainPc = "done"
    /\ \A t \in Testers : Finished(tpc[t]) /\ Finished(ppc[t])
    /\ \A p \in ProcIds : proc[p].st \in {"none", "exited"}
    /\ mainPc' = "run"
    /\ stage' = 0
    /\ tpc' = [t \in Testers |-> "idle"]
    /\ terr' = [t \in Testers |-> ""]
    /\ wait' = [t \in Testers |-> IdleFrame]
    /\ found' = [t \in Testers |-> "pending"]
    /\ toolRuns' = [t \in Testers |-> 0]
    /\ warmup' = [t \in Testers |-> "unread"]
    /\ measuredDone' = [t \in Testers |-> FALSE]
    /\ termResult' = [t \in Testers |-> "none"]
    /\ termBound' = [t \in Testers |-> << >>]
    /\ ppc' = [k \in Testers |-> "idle"]
    /\ attempts' = [k \in Testers |-> 0]
    /\ published' = [k \in Testers |-> 0]
    /\ proc' = [p \in ProcIds |-> NoProcess]
    /\ signals' = {}
    /\ result' = NoResult
    /\ steps' = [k \in Testers |-> << >>]
    /\ stageRet' = [k \in Testers |-> NoStatus]
    /\ UNCHANGED << fnVars, inputVars, wrkVars, bufferVars >>

NextAgain == Next \/ RunAgain

SpecAgain == Init /\ [][NextAgain]_vars

\* The prober thread keeps running once started: each urlopen call returns (with a
\* response or an error) and the loop goes on.
SpecProbe == Spec /\ WF_vars(\E k \in Testers : ProbeAttempt(k))

\* ------------------------------------------- waitForPort called on its own
\* A single call waitForPort(port, T), and one process that opens the port d
\* seconds after the call, or holds it already, or does not exist; the process may
\* exit at any time.  The caller occupies tester slot 1, the process slot 1.
Listening == [st |-> "listening", openIn |-> 0, delay |-> 0, rc |-> 0]

InitWait ==
    /\ native = FALSE
    /\ stages = << >>
    /\ mainPc = "none"
    /\ stage = 0
    /\ tpc = [t \in Testers |-> IF t = 1 THEN "waitPort" ELSE "idle"]
    /\ terr = [t \in Testers |-> ""]
    /\ \E T \in 0..MaxTimeout :
          wait = [t \in Testers |-> IF t = 1 THEN CallFrame(T) ELSE IdleFrame]
    /\ found = [t \in Testers |-> "pending"]
    /\ toolRuns = [t \in Testers |-> 0]
    /\ warmup = [t \in Testers |-> "unread"]
    /\ measuredDone = [t \in Testers |-> FALSE]
    /\ termResult = [t \in Testers |-> "none"]
    /\ termBound = [t \in Testers |-> << >>]
    /\ ppc = [k \in Testers |-> "idle"]
    /\ attempts = [k \in Testers |-> 0]
    /\ published = [k \in Testers |-> 0]
    /\ \E p0 \in {NoProcess, Listening} \cup { Starting(d) : d \in 0..MaxWaitDelay } :
          proc = [p \in ProcIds |-> IF p = 1 THEN p0 ELSE NoProcess]
    /\ signals = {}
    /\ testerOutput = 0
    /\ timeToFirstResponseOutput = 0
    /\ result = NoResult
    /\ steps = [k \in Testers |-> << >>]
    /\ stageRet = [k \in Testers |-> NoStatus]
    /\ NoWrk
    /\ NoFn

NextWait ==
    \/ \E t \in Testers : WaitScan(t)
    \/ \E t \in Testers : WaitWake(t)
    \/ \E p \in ProcIds : PortOpen(p)
    \/ \E p \in ProcIds : ProcExit(p)
    \/ Tick

\* The calling path keeps running, time passes, and a process whose start-up delay
\* is over does open its port unless it exits.
SpecWait ==
    /\ InitWait
    /\ [][NextWait]_vars
    /\ WF_vars(\E t \in Testers : WaitScan(t))
    /\ WF_vars(\E t \in Testers : WaitWake(t))
    /\ WF_vars(\E p \in ProcIds : PortOpen(p))
    /\ WF_vars(Tick)

\* ----------------------------------------- runTester of a Wrk suite on its own
\* Successive runTester calls on one suite object (one per run stage), with the
\* configuration file, the suite class and the mode as inputs.
InitWrk ==
    /\ native \in BOOLEAN
    /\ stages = << >>
    /\ mainPc = "none"
    /\ stage = 0
    /\ InitPaths
    /\ kind \in {"wrk1", "wrk2"}
    /\ config \in Configs
    /\ defaultCmd = << >>
    /\ wrk = IdleWrk
    /\ runs = << >>
    /\ NoFn

NextWrk ==
    \/ WrkRunTester
    \/ WrkWarmupReturn
    \/ WrkMeasuredReturn

SpecWrk == InitWrk /\ [][NextWrk]_vars

\* ------------------------------- native runs against a well-behaved server
\* Every launched server opens its port one second after its launch and exits, with
\* status 0, when it has received SIGTERM, and never otherwise; the builds succeed,
\* the workload configuration is complete and the load tool returns 0.  A server is
\* launched within the second in which its tester thread was started.
OnlyRun == << << "run" >> >>

InitRun ==
    /\ native = TRUE
    /\ stages \in StageLists
    /\ mainPc = "run"
    /\ stage = 0
    /\ InitPaths
    /\ NoWrk
    /\ NoFn

Signalled(p) == \E s \in signals : s[2] = p
ToolSucceeds(t) == tpc'[t] # "aborted"

NextRun ==
    \/ Run
    \/ RunStage
    \/ BuildReturn /\ mainPc' # "aborted"
    \/ StartProber
    \/ Launch /\ proc'[stage].delay = 1
    \/ ServerReturn
    \/ Merge
    \/ \E t \in Testers : WaitScan(t)
    \/ \E t \in Testers : WaitWake(t)
    \/ \E t \in Testers : TesterPortWaitReturn(t)
    \/ \E t \in Testers : RunTesterBegin(t) /\ ToolSucceeds(t)
    \/ \E t \in Testers : WarmupReturn(t) /\ ToolSucceeds(t)
    \/ \E t \in Testers : MeasuredReturn(t) /\ ToolSucceeds(t)
    \/ \E t \in Testers : TerminateReturn(t)
    \/ \E k \in Testers : ProbeAttempt(k)
    \/ \E p \in ProcIds : PortOpen(p)
    \/ \E p \in ProcIds : ProcExit(p) /\ Signalled(p) /\ proc'[p].rc = 0
    \/ Tick /\ mainPc # "launch"

\* Every path keeps running, time passes, the tool's runs end and the signalled
\* server exits: the run does not stop while one of its steps can be taken.
SpecRun == InitRun /\ [][NextRun]_vars /\ WF_vars(NextRun)

\* --------------------------------------------------- runs that keep running
\* Every path keeps running, time passes, builds and load-tool runs end, a server
\* whose start-up delay is over opens its port unless it exits, and a server that
\* has received SIGTERM exits.  A server that was not signalled may run forever.
Progress ==
    /\ WF_vars(Run \/ RunStage \/ BuildReturn \/ StartProber \/ Launch
                 \/ ServerReturn \/ Merge)
    /\ WF_vars(\E t \in Testers :
                  \/ WaitScan(t) \/ WaitWake(t) \/ TesterPortWaitReturn(t)
                  \/ RunTesterBegin(t) \/ WarmupReturn(t) \/ MeasuredReturn(t)
                  \/ TerminateReturn(t))
    /\ WF_vars(\E k \in Testers : ProbeAttempt(k))
    /\ WF_vars(\E p \in ProcIds : PortOpen(p))
    /\ WF_vars(\E p \in ProcIds : ProcExit(p) /\ Signalled(p))
    /\ WF_vars(Tick)

SpecLive == Spec /\ Progress

\* ------------------------------------- the JMeter suite's run() on its own
\* The inherited run() has returned n data points.
InitJMeter ==
    /\ native = FALSE
    /\ stages = << >>
    /\ mainPc = "none"
    /\ stage = 0
    /\ InitPaths
    /\ NoWrk
    /\ \E n \in 0..MaxSamples :
          jmeter = [pc |-> "collected", collected |-> Collected(n),
                    results |-> Collected(n)]
    /\ engine = NoEngine
    /\ bench = NoBench
    /\ flagCall = NoFlags
    /\ probeCall = NoProbeCall

NextJMeter ==
    \/ JMeterTrim
    \/ JMeterAverage

SpecJMeter == InitJMeter /\ [][NextJMeter]_vars

\* ------------------------------------------------ one rule on a single line
\* Every line of at most MaxLine tokens over the characters and literal pieces of
\* the Wrk outputs is given to the throughput rule or to the latency rule.
Alphabet == { "Requests/sec:", Blank, "3", "5", ".", ",", "%", "ms" }
Lines == UNION { [1..n -> Alphabet] : n \in 0..MaxLine }

InitRule ==
    /\ native = FALSE
    /\ stages = << >>
    /\ mainPc = "none"
    /\ stage = 0
    /\ InitPaths
    /\ NoWrk
    /\ jmeter = NoJMeter
    /\ bench = NoBench
    /\ flagCall = NoFlags
    /\ probeCall = NoProbeCall
    /\ \E rule \in { "throughput", "latency" }, line \in Lines :
          engine = [rules |-> << rule >>, out |-> << line >>, parsed |-> << >>,
                    log |-> << >>, matched |-> 0]

NextRule == ApplyRules /\ engine.parsed = << >>

SpecRule == InitRule /\ [][NextRule]_vars

\* ------------------------------------------ a suite's rules on an output
\* A captured output of at most MaxLines lines and the rules of one suite; the
\* rules are applied to it, and to other outputs, in any order.
InitEngine ==
    /\ native = FALSE
    /\ stages = << >>
    /\ mainPc = "none"
    /\ stage = 0
    /\ InitPaths
    /\ NoWrk
    /\ jmeter = NoJMeter
    /\ bench = NoBench
    /\ flagCall = NoFlags
    /\ probeCall = NoProbeCall
    /\ \E rules \in SuiteRules, text \in Texts :
          engine = [rules |-> rules, out |-> text, parsed |-> << >>, log |-> << >>,
                    matched |-> 0]

NextEngine ==
    \/ ApplyRules
    \/ ApplyElsewhere

SpecEngine == InitEngine /\ [][NextEngine]_vars

\* ----------------------------------------- benchMicroserviceName on its own
\* Every suite name of at most MaxName characters over two letters and the hyphen.
NameCharacters == { "a", "b", "-" }
SuiteNames == UNION { [1..n -> NameCharacters] : n \in 0..MaxName }

InitName ==
    /\ native = FALSE
    /\ stages = << >>
    /\ mainPc = "none"
    /\ stage = 0
    /\ InitPaths
    /\ NoWrk
    /\ jmeter = NoJMeter
    /\ engine = NoEngine
    /\ flagCall = NoFlags
    /\ probeCall = NoProbeCall
    /\ \E name \in SuiteNames : bench = [NoBench EXCEPT !.pc = "called",
                                                        !.suiteName = name]

NextName == BenchMicroserviceName

SpecName == InitName /\ [][NextName]_vars

\* ------------------------------------------------ the flag accessors alone
\* Every argument list of at most MaxArgs arguments of at most MaxArg tokens.
FlagTokens == { StagesPrefix, OutputDirPrefix, SkipAgentAssertionsPrefix,
                "true", "false", Blank }
Arguments == UNION { [1..n -> FlagTokens] : n \in 1..MaxArg }
ArgLists == UNION { [1..n -> Arguments] : n \in 0..MaxArgs }

InitFlags ==
    /\ native = FALSE
    /\ stages = << >>
    /\ mainPc = "none"
    /\ stage = 0
    /\ InitPaths
    /\ NoWrk
    /\ jmeter = NoJMeter
    /\ engine = NoEngine
    /\ bench = NoBench
    /\ probeCall = NoProbeCall
    /\ \E args \in ArgLists : flagCall = [NoFlags EXCEPT !.pc = "called", !.args = args]

NextFlags ==
    \/ StagesCall
    \/ BenchmarkOutputDir
    \/ SkipAgentAssertions

SpecFlags == InitFlags /\ [][NextFlags]_vars

\* ----------------------------------------------------- stages() on its own
\* A stage name is the sequence of its hyphen-separated words, so an override is
\* the prefix followed by words and commas.  The argument lists are those of the
\* flag accessors and every single override of at most MaxOverride tokens.
StageTokens == { StagesPrefix, ",", "agent", "instrument", "image", "run" }
Overrides == UNION { [1..n -> StageTokens] : n \in 1..MaxOverride }
OverrideLists == { << arg >> : arg \in Overrides }

InitStages ==
    /\ native = FALSE
    /\ stages = << >>
    /\ mainPc = "none"
    /\ stage = 0
    /\ InitPaths
    /\ NoWrk
    /\ jmeter = NoJMeter
    /\ engine = NoEngine
    /\ bench = NoBench
    /\ probeCall = NoProbeCall
    /\ \E args \in ArgLists \union OverrideLists :
          flagCall = [NoFlags EXCEPT !.pc = "called", !.args = args]

NextStages == StagesCall

SpecStages == InitStages /\ [][NextStages]_vars

\* ---------------------------------------- timeToFirstResponse on its own
\* Every suite name of at most MaxName characters and every command of at most
\* MaxWords words of at most MaxWord letters.
Words == UNION { [1..n -> {"a", "b"}] : n \in 0..MaxWord }
Commands == UNION { [1..n -> Words] : n \in 0..MaxWords }

InitFirst ==
    /\ native = FALSE
    /\ stages = << >>
    /\ mainPc = "none"
    /\ stage = 0
    /\ InitPaths
    /\ NoWrk
    /\ jmeter = NoJMeter
    /\ engine = NoEngine
    /\ bench = NoBench
    /\ flagCall = NoFlags
    /\ \E name \in SuiteNames, cmd \in Commands :
          probeCall = [NoProbeCall EXCEPT !.pc = "called", !.suiteName = name,
                                          !.cmd = cmd]

NextFirst == TimeToFirstResponse

SpecFirst == InitFirst /\ [][NextFirst]_vars

\* ------------------------------------------------------------------ claims
Returned(f) == f.phase = "ret"
SignalsOf(t) == { s \in signals : s[1] = t }
\* the tester path has left terminateApplication's lookup behind
PastTerminate(t) == termBound[t] # << >> /\ tpc[t] # "terminate"

\* C1: on every tester path the termination signal is sent only after runTester,
\* with its warm-up pass if any, has returned.
C1_SignalOnlyAfterMeasuredRun ==
    \A t \in Testers :
        SignalsOf(t) # {} =>
            /\ measuredDone[t]
            /\ toolRuns[t] = (IF warmup[t] = "set" THEN 2 ELSE 1)
            /\ tpc[t] \notin {"waitPort", "runTester", "warmup", "measured"}

C1_Witness ==
    \E t \in Testers : SignalsOf(t) # {} /\ warmup[t] = "set" /\ measuredDone[t]

\* C2: a tester path issues no load-tool invocation, warm-up or measured, before
\* its waitForPort on the service port has returned a process.
C2_ToolOnlyAfterPortWait ==
    \A t \in Testers :
        (toolRuns[t] > 0 \/ tpc[t] \in {"runTester", "warmup", "measured"}) =>
            /\ found[t] = "yes"
            /\ ~(tpc[t] = "waitPort")

C2_Witness ==
    \E t \in Testers : tpc[t] = "warmup" /\ toolRuns[t] = 1 /\ found[t] = "yes"

\* C3 (as claimed): when run_stage has returned for a run stage, the tester path
\* and the prober path that stage started have finished.
StageReturned(k) ==
    /\ native
    /\ k <= Len(stages)
    /\ \/ stage > k
       \/ stage = k /\ mainPc \in {"merge", "done", "error"}
C3_StagePathsJoined ==
    \A k \in Testers :
        StageReturned(k) => Finished(tpc[k]) /\ Finished(ppc[k])

\* C4 (as claimed): the buffers are merged by runAndReturnStdOut only after the
\* tester and prober paths have finished, and no path is left to write a buffer
\* once they are merged.
C4_MergeAfterPathsFinished ==
    mainPc = "done" =>
        /\ result.liveTesters = {} /\ result.liveProbers = {}
        /\ \A t \in Testers : Finished(tpc[t]) /\ Finished(ppc[t])

\* C5: when no process is bound to the port at terminateApplication's lookup, it
\* returns False and the tester path aborts with the termination-failure error.
C5_TerminationFailureAborts ==
    \A t \in Testers :
        (PastTerminate(t) /\ termBound[t][1] = {}) =>
            /\ termResult[t] = "false"
            /\ tpc[t] = "aborted"
            /\ terr[t] = TerminationFailure

C5_Witness ==
    \E t \in Testers :
        /\ PastTerminate(t) /\ termBound[t][1] = {}
        /\ measuredDone[t] /\ tpc[t] = "aborted"

\* C6: when the tester path's port wait runs out without finding a process, the
\* path aborts with the server-not-found error, having run no load tool and sent
\* no termination signal.
C6_ServerNotFoundAborts ==
    \A t \in Testers :
        found[t] = "no" =>
            /\ tpc[t] = "aborted"
            /\ terr[t] = ServerNotFound
            /\ toolRuns[t] = 0
            /\ SignalsOf(t) = {}
            /\ termResult[t] = "none"

C6_Witness ==
    \E t \in Testers :
        /\ tpc[t] = "aborted" /\ terr[t] = ServerNotFound
        /\ found[t] = "no" /\ toolRuns[t] = 0

\* C7: terminateApplication looks the port up once, with timeout 0; it returns
\* True exactly when the lookup found a process, and then SIGTERM was sent to that
\* process; when nothing was found it returns False and sends no signal.
C7_TerminateSignalsIffFound ==
    \A t \in Testers :
        /\ tpc[t] = "terminate" => wait[t].timeout = 0
        /\ Len(termBound[t]) <= 1
        /\ termResult[t] = "none" => SignalsOf(t) = {}
        /\ termResult[t] = "true" =>
               /\ PastTerminate(t)
               /\ \E p \in termBound[t][1] : SignalsOf(t) = { Sigterm(t, p) }
        /\ termResult[t] = "false" =>
               /\ PastTerminate(t)
               /\ termBound[t][1] = {}
               /\ SignalsOf(t) = {}
        /\ PastTerminate(t) => termResult[t] # "none"

C7_Witness ==
    \E t \in Testers, p \in ProcIds :
        termResult[t] = "true" /\ SignalsOf(t) = { Sigterm(t, p) } /\ tpc[t] = "done"

\* C8 (as claimed): waitForPort called with timeout 0 checks once and returns with
\* no polling delay, whether or not a process is bound to the port: no one-second
\* sleep has elapsed when the call returns.
C8_ZeroTimeoutReturnsWithoutSleep ==
    \A t \in Testers :
        (Returned(wait[t]) /\ wait[t].timeout = 0) =>
            /\ wait[t].scans = 1
            /\ wait[t].sleeps = 0

\* C9: a process that opens the port d seconds after waitForPort(port, T) was
\* called, 0 <= d < T, and keeps it open, is the process the call returns; the call
\* never returns None.
C9_PortOpenedInTimeIsFound ==
    \A t \in Testers, p \in ProcIds :
        (/\ Returned(wait[t])
         /\ proc[p].st = "listening"
         /\ proc[p].delay < wait[t].timeout)
            => wait[t].res = p

C9_Witness ==
    \E t \in Testers, p \in ProcIds :
        /\ Returned(wait[t])
        /\ wait[t].timeout = 5
        /\ proc[p].st = "listening"
        /\ proc[p].delay = 2
        /\ wait[t].res = p
        /\ wait[t].sleeps >= 2

\* C10: waitForPort(port, T) scans once per second (a one-second sleep lies between
\* two scans), returns the process at the first scan that finds one without a
\* further scan, returns None only once the T seconds of the timeout have passed
\* (after T + 1 scans, each followed by its sleep), and always returns.
WaitForPortBounded(f) ==
    /\ f.scans <= f.timeout + 1
    /\ f.sleeps <= f.scans /\ f.scans <= f.sleeps + 1
    /\ f.res # NoProc => Returned(f) /\ f.scans = f.sleeps + 1
    /\ (Returned(f) /\ f.res = NoProc) =>
           /\ f.scans = f.timeout + 1
           /\ f.sleeps >= f.timeout /\ f.sleeps <= f.timeout + 1

C10_WaitForPortScansAndTerminates ==
    /\ [](\A t \in Testers : WaitForPortBounded(wait[t]))
    /\ <>(\A t \in Testers : wait[t].phase \in {"idle", "ret"})

C10_Witness ==
    \E t \in Testers :
        /\ Returned(wait[t])
        /\ wait[t].timeout = 3
        /\ wait[t].res = NoProc
        /\ wait[t].scans = 4

\* C11: in native mode, what run_stage does for a run stage is, in this order:
\* start the tester path, then (agent stage only) call timeToFirstResponse, which
\* is the only place a prober path is started, then launch the benchmarked process,
\* then return; it returns only when that process has exited, and what it returns
\* is that process's exit status.
RunStageSteps(name) ==
    << "tester" >> \o (IF name = << "agent" >> THEN << "timeToFirstResponse" >> ELSE << >>)
                  \o << "launch", "return" >>
IsPrefix(s, t) == Len(s) <= Len(t) /\ \A i \in 1..Len(s) : s[i] = t[i]
RunStageNames == { << "agent" >>, << "instrument", "run" >>, << "run" >> }

C11_RunStageOrder ==
    native =>
        \A k \in 1..Len(stages) :
            stages[k] \in RunStageNames =>
                /\ IsPrefix(steps[k], RunStageSteps(stages[k]))
                /\ tpc[k] # "idle" => Len(steps[k]) >= 1
                /\ ppc[k] # "idle" => stages[k] = << "agent" >> /\ Len(steps[k]) >= 2
                /\ proc[k].st # "none" <=>
                       Len(steps[k]) >= Len(RunStageSteps(stages[k])) - 1
                /\ stageRet[k] # NoStatus <=> steps[k] = RunStageSteps(stages[k])
                /\ stageRet[k] # NoStatus =>
                       proc[k].st = "exited" /\ stageRet[k] = proc[k].rc

C11_Witness ==
    /\ native
    /\ stages[1] = << "agent" >>
    /\ steps[1] = << "tester", "timeToFirstResponse", "launch", "return" >>
    /\ stageRet[1] = 1
    /\ ppc[1] # "idle"

\* C12: a stage is run as a build stage exactly when its name contains "image"
\* (instrument-image, image); the primary path's steps of a build stage start no
\* tester path and no prober path, launch no server, send no signal and leave
\* testerOutput and timeToFirstResponseOutput as they were.
BuildStageNames == { << "instrument", "image" >>, << "image" >> }

C12_BuildStageOnlyBuilds ==
    [][ (mainPc \in {"stage", "build"} /\ mainPc' # mainPc) =>
            /\ mainPc = "stage" =>
                   (mainPc' = "build" <=> stages[stage] \in BuildStageNames)
            /\ stages[stage] \in BuildStageNames =>
                   /\ mainPc = "stage" => mainPc' = "build"
                   /\ UNCHANGED << tpc, wait, toolRuns, ppc, attempts, published, proc,
                                   signals, testerOutput, timeToFirstResponseOutput >>
      ]_vars

C12_Witness ==
    \E k \in Testers :
        /\ native /\ k <= Len(stages)
        /\ stages[k] = << "instrument", "image" >>
        /\ steps[k] = << "build", "return" >>
        /\ tpc[k] = "idle" /\ ppc[k] = "idle" /\ proc[k].st = "none"

\* C13 (as claimed): while a run stage is executing, at most one tester path and
\* at most one prober path are live, and a prober path is live only in the agent
\* stage.
LiveTesters == { t \in Testers : ~Finished(tpc[t]) }
LiveProbers == { k \in Testers : ~Finished(ppc[k]) }

C13_AtMostThreePaths ==
    (native /\ mainPc \in {"prober", "launch", "wait"}) =>
        /\ Cardinality(LiveTesters) <= 1
        /\ Cardinality(LiveProbers) <= 1
        /\ LiveProbers # {} => stages[stage] = << "agent" >>

\* C14: the prober makes at most its budget of attempts and ends in exactly one of
\* two ways: at the first successful response it publishes the annotation, once,
\* and stops; when the budget is used up without success it aborts with the
\* probe-timeout error and has published nothing.  Once started it always ends.
ProberOutcome(k) ==
    /\ attempts[k] <= ProbeAttempts
    /\ published[k] <= 1
    /\ ppc[k] = "idle" => attempts[k] = 0 /\ published[k] = 0
    /\ ppc[k] = "polling" => attempts[k] < ProbeAttempts /\ published[k] = 0
    /\ ppc[k] = "done" => published[k] = 1 /\ attempts[k] < ProbeAttempts
    /\ ppc[k] = "aborted" => published[k] = 0 /\ attempts[k] = ProbeAttempts
    /\ published[k] = 1 => ppc[k] = "done"

C14_ProberEndsWithinBudget ==
    /\ [](\A k \in Testers : ProberOutcome(k))
    /\ \A k \in Testers : (ppc[k] = "polling") ~> (ppc[k] \in {"done", "aborted"})

C14_Witness ==
    \E k \in Testers : ppc[k] = "done" /\ attempts[k] = 1 /\ published[k] = 1

\* C15: in the agent stage the prober path is started before the benchmarked
\* process is launched, and only there; timeToFirstResponse returns to run_stage
\* at once, with the prober at most started and no probe result; the annotation is
\* published later by the prober path itself, never by a step of the primary path.
C15_ProberStartDoesNotBlock ==
    [][ /\ (mainPc = "prober" /\ mainPc' # mainPc) =>
              /\ stages[stage] = << "agent" >>
              /\ mainPc' = "launch"
              /\ proc[stage].st = "none" /\ proc' = proc
              /\ ppc'[stage] \in {"idle", "polling"}
              /\ attempts'[stage] = 0
              /\ UNCHANGED << published, timeToFirstResponseOutput >>
        /\ \A k \in Testers :
              (ppc[k] = "idle" /\ ppc'[k] # "idle") =>
                  /\ mainPc = "prober" /\ stage = k
                  /\ ppc'[k] = "polling"
                  /\ proc[k].st = "none"
        /\ timeToFirstResponseOutput' # timeToFirstResponseOutput =>
              /\ mainPc' = mainPc
              /\ \E k \in Testers :
                    /\ ppc[k] = "polling" /\ ppc'[k] = "done"
                    /\ timeToFirstResponseOutput' = k
      ]_vars

C15_Witness ==
    \E k \in Testers :
        /\ native /\ stage = k /\ mainPc = "wait"
        /\ stages[k] = << "agent" >>
        /\ ppc[k] = "done" /\ timeToFirstResponseOutput = k
        /\ proc[k].st = "listening"

\* C16: the text runAndReturnStdOut returns is the tester's captured output, then
\* the first-response annotation if one has been published, then the benchmarked
\* process's output, in this order; the exit status and the dimensions are those
\* the inherited call returned.
C16_ResultIsOrderedConcatenation ==
    mainPc = "done" =>
        /\ result.returned.text =
              << << "tester", result.tester >> >>
              \o (IF result.first = 0 THEN << >> ELSE << << "first", result.first >> >>)
              \o result.inherited.out
        /\ result.inherited.out = << << "application", stage >> >>
        /\ result.tester \in Testers
        /\ result.returned.rc = result.inherited.rc
        /\ result.returned.dims = result.inherited.dims

C16_Witness ==
    /\ mainPc = "done"
    /\ Len(result.returned.text) = 3
    /\ result.returned.text[2] = << "first", 1 >>
    /\ result.returned.rc = 1

\* C17: a runTester call whose configuration lacks target-url, or, for a Wrk2
\* suite, lacks rate, ends in the matching configuration error and has issued no
\* load-tool command.  (Where the operating system is not supported the call has
\* already ended in that error, also without a command.)
C17_MissingMandatoryKeyAborts ==
    \A i \in 1..Len(runs) :
        (config["target-url"] = "absent" \/ (kind = "wrk2" /\ config["rate"] = "absent")) =>
            /\ runs[i].cmds = << >>
            /\ runs[i].os # "other" =>
                  runs[i].end = (IF kind = "wrk2" /\ config["rate"] = "absent"
                                 THEN RateMissing ELSE TargetUrlMissing)

C17_Witness ==
    /\ kind = "wrk1"
    /\ config["target-url"] = "absent" /\ config["connections"] = "set"
    /\ Len(runs) = 2
    /\ runs[1].end = TargetUrlMissing /\ runs[2].end = TargetUrlMissing

\* C18 (as claimed): when a tester path loads and validates the workload
\* configuration, no benchmarked server process has been launched yet.
ConfigLoaded(t) == warmup[t] # "unread"

C18_ConfigLoadedBeforeLaunch ==
    \A t \in Testers :
        ConfigLoaded(t) => \A p \in ProcIds : proc[p].st = "none"

\* C19 (as claimed): with target-url (and rate, for Wrk2) present, command
\* construction does not fail, and the measured command is the tool's path, then
\* --duration iff duration is configured, then (Wrk2: --latency --rate) and the
\* flag of each optional key that is present, once each, then the target, with
\* target-path appended when present.
ExpectedFlags(suite, cfg) ==
    (IF suite = "wrk2" THEN << <<"--", "latency">>, <<"--", "rate">>, <<"str", "rate">> >>
     ELSE << >>)
    \o (IF cfg["connections"] # "absent"
        THEN << <<"--", "connections">>, <<"str", "connections">> >> ELSE << >>)
    \o (IF cfg["threads"] # "absent"
        THEN << <<"--", "threads">>, <<"str", "threads">> >> ELSE << >>)
    \o (IF cfg["script"] # "absent"
        THEN << <<"--", "script">>, <<"str", "getScriptPath">> >> ELSE << >>)
    \o (IF cfg["target-path"] # "absent"
        THEN << <<"str", "target-url", "target-path">> >>
        ELSE << <<"str", "target-url">> >>)
ExpectedDuration(cfg) ==
    IF cfg["duration"] # "absent" THEN << <<"--", "duration">>, <<"str", "duration">> >>
    ELSE << >>
WellFormed(suite, cfg) ==
    cfg["target-url"] # "absent" /\ (suite = "wrk2" => cfg["rate"] # "absent")

C19_OptionalKeysContributeFlags ==
    \A i \in 1..Len(runs) :
        (WellFormed(kind, config) /\ runs[i].os # "other") =>
            /\ runs[i].end \notin {TargetUrlMissing, RateMissing}
            /\ runs[i].cmds # << >>
            /\ \A j \in 1..Len(runs[i].cmds) :
                  runs[i].cmds[j].run = "measured" =>
                      runs[i].cmds[j].cmd =
                          << << "wrk", IF runs[i].os = "linux" THEN "linux" ELSE "macos" >> >>
                          \o ExpectedDuration(config) \o ExpectedFlags(kind, config)

\* C20: a runTester call that gets to run the tool runs it first as a warm-up with
\* --duration <the warm-up duration>, captured apart from self.testerOutput, exactly
\* when the duration selected for the mode (warmup-duration-native-image in native
\* mode, warmup-duration otherwise) is configured with a value; the measured run
\* follows, once, into self.testerOutput; without a warm-up duration the measured
\* run is the only run.
WarmupRuns(cmds) == { j \in 1..Len(cmds) : cmds[j].run = "warmup" }
MeasuredRuns(cmds) == { j \in 1..Len(cmds) : cmds[j].run = "measured" }

C20_WarmupOncePerCall ==
    \A i \in 1..Len(runs) :
        LET cmds == runs[i].cmds
            key == IF native THEN "warmup-duration-native-image" ELSE "warmup-duration"
        IN  /\ runs[i].end = "returned" => cmds # << >>
            /\ cmds # << >> =>
                  /\ \A j \in 1..Len(cmds) :
                        cmds[j].out = "testerOutput" <=> cmds[j].run = "measured"
                  /\ Cardinality(MeasuredRuns(cmds)) <= 1
                  /\ runs[i].end = "returned" => MeasuredRuns(cmds) = { Len(cmds) }
                  /\ IF config[key] = "set"
                     THEN /\ WarmupRuns(cmds) = {1}
                          /\ cmds[1].cmd[2] = << "--", "duration" >>
                          /\ cmds[1].cmd[3] = << "str", key >>
                          /\ MeasuredRuns(cmds) \subseteq {2}
                     ELSE /\ WarmupRuns(cmds) = {}
                          /\ MeasuredRuns(cmds) = {1}

C20_Witness ==
    /\ native
    /\ config["warmup-duration-native-image"] = "set"
    /\ config["warmup-duration"] = "absent"
    /\ \E i \in 1..Len(runs) :
          /\ runs[i].end = "returned"
          /\ Len(runs[i].cmds) = 2
          /\ testerOutput = i

\* C21: with the stage sequence ["run"], a server that opens its port after 1 s and
\* exits when it receives the termination signal, and a tester that terminates, no
\* path ever aborts and the run eventually completes with a non-empty result.
NoFatalError ==
    /\ mainPc \notin {"aborted", "error"}
    /\ \A t \in Testers : tpc[t] # "aborted"
    /\ \A k \in Testers : ppc[k] # "aborted"
RunCompleted ==
    /\ mainPc = "done"
    /\ result.returned.text # << >>
    /\ result.tester = 1
    /\ stageRet[1] = 0

StageRunning(k) == stage = k /\ mainPc \in {"build", "prober", "launch", "wait"}

C22_StageLeavesRunning == \A k \in Testers : StageRunning(k) ~> ~StageRunning(k)

\* C23: once a fatal condition has been raised on any path (server not found, probe
\* timeout, termination failure, fatal external-tool failure), no later stage is
\* started, no stage is run again and no result is returned.
FatalRaised ==
    \/ \E t \in Testers : tpc[t] = "aborted"
    \/ \E k \in Testers : ppc[k] = "aborted"
    \/ mainPc = "aborted"
StartsStage == mainPc # "stage" /\ mainPc' = "stage"
ReturnsResult == mainPc # "done" /\ mainPc' = "done"
RunsStageAgain ==
    \E k \in Testers : /\ Len(steps[k]) > 0
                       /\ Len(steps'[k]) > Len(steps[k])
                       /\ steps'[k][Len(steps'[k])] \in {"build", "tester"}

C23_FatalAbortsPipeline ==
    [][FatalRaised => ~StartsStage /\ ~ReturnsResult /\ ~RunsStageAgain]_vars

\* C24: the only signal the harness sends is SIGTERM, at most once per tester path;
\* the step that sends it ends the tester path at once, without waiting for the
\* process to exit, and nothing is sent afterwards when the process stays alive.
SignalStep(t) == SignalsOf(t)' # SignalsOf(t)

C24_TerminateIsFireAndForget ==
    [][/\ \A s \in signals' : s[3] = "SIGTERM"
       /\ \A t \in Testers : Cardinality(SignalsOf(t)') <= 1
       /\ \A t \in Testers :
             SignalStep(t) => /\ tpc[t] = "terminate" /\ tpc'[t] = "done"
                              /\ proc' = proc
       /\ \A t \in Testers : tpc[t] = "done" => ~SignalStep(t)]_vars

\* a tester path has ended while the server it signalled is still listening
C24_Witness ==
    \E t \in Testers, p \in ProcIds :
        /\ signals = { Sigterm(t, p) }
        /\ tpc[t] = "done"
        /\ proc[p].st = "listening"

\* C25: of n collected data points the JMeter runner keeps the first
\* n - floor(n * 0.10), in their order (100 give 90), and drops the tail, before the
\* trailing average is appended.
Kept(n) == n - (n * 10) \div 100
IsFirst(kept, all, m) == Len(kept) = m /\ \A i \in 1..m : kept[i] = all[i]

C25_TailTenthDropped ==
    LET n == Len(jmeter.collected)
    IN  /\ n = 100 => Kept(n) = 90
        /\ jmeter.pc = "trimmed" => IsFirst(jmeter.results, jmeter.collected, Kept(n))
        /\ jmeter.pc = "returned" =>
              /\ IsFirst(SubSeq(jmeter.results, 1, Kept(n)), jmeter.collected, Kept(n))
              /\ Len(jmeter.results) = Kept(n) + (IF Kept(n) = 0 THEN 0 ELSE 1)
              /\ Kept(n) > 0 => jmeter.results[Kept(n) + 1] = "average"

\* 100 data points were collected and the average has been appended to the first 90
C25_Witness ==
    /\ jmeter.pc = "returned"
    /\ Len(jmeter.collected) = 100
    /\ Len(jmeter.results) = 91

\* C26: the throughput rule applied to a line 'Requests/sec: <number>' gives exactly
\* one record, with that number as value, metric name throughput, unit "op/s" and
\* better "higher"; applied to a line the pattern does not match it gives no
\* record and no error.
AllIn(s, class) == \A i \in 1..Len(s) : s[i] \in class
\* a decimal numeral: digits, or digits "." digits
IsNumeral(s) ==
    /\ s # << >>
    /\ AllIn(s, Digits \cup {"."})
    /\ s[1] \in Digits /\ s[Len(s)] \in Digits
    /\ SeparatorsIn(s) <= 1
\* the digits of a numeral before and after its "."
NumeralValue(s) ==
    LET dots == { i \in 1..Len(s) : s[i] = "." }
    IN  IF dots = {} THEN [whole |-> s, frac |-> << >>]
        ELSE LET d == CHOOSE i \in dots : TRUE
             IN  [whole |-> SubSeq(s, 1, d - 1), frac |-> SubSeq(s, d + 1, Len(s))]
\* the line is "Requests/sec:", b blanks and then `rest`
ThroughputLine(line, b, rest) ==
    line = << "Requests/sec:" >> \o [i \in 1..b |-> Blank] \o rest
Tails(line) == { SubSeq(line, j, Len(line)) : j \in 1..Len(line) + 1 }

C26_ThroughputRule ==
    (engine.rules = << "throughput" >> /\ engine.parsed # << >>) =>
        LET line == engine.out[1]
            res == engine.parsed[1]
        IN  /\ \A b \in 0..Len(line), rest \in Tails(line) :
                  ThroughputLine(line, b, rest) /\ IsNumeral(rest) =>
                      /\ ~res.error /\ Len(res.records) = 1
                      /\ res.records[1].value = NumeralValue(rest)
                      /\ res.records[1].name = "throughput"
                      /\ res.records[1].unit = "op/s"
                      /\ res.records[1].better = "higher"
            /\ (~\E b \in 0..Len(line), rest \in Tails(line) :
                    ThroughputLine(line, b, rest) /\ IsNumberShape(rest))
                  => res.records = << >> /\ ~res.error

\* the line "Requests/sec: 5.3" has given its record
C26_Witness ==
    /\ engine.rules = << "throughput" >>
    /\ engine.out = << << "Requests/sec:", Blank, "5", ".", "3" >> >>
    /\ Len(engine.parsed) = 1
    /\ ~engine.parsed[1].error
    /\ Len(engine.parsed[1].records) = 1

\* a line the throughput pattern does not match has given no record
C26_WitnessNoMatch ==
    /\ engine.rules = << "throughput" >>
    /\ engine.out = << << "Requests/sec:", Blank, "5", "ms" >> >>
    /\ engine.parsed = << [records |-> << >>, error |-> FALSE] >>

\* C27: the latency rule applied to a line '<percentile>% <latency>ms' gives one
\* record whose percentile dimension is the captured percentile and whose value is
\* the captured latency, with unit "ms" and better "lower".
\* the line is a blanks, a numeral, "%" at position i, b blanks, a numeral and "ms"
LatencyLine(line, a, i, b) ==
    /\ a < i /\ i + b < Len(line) /\ b >= 1
    /\ AllIn(SubSeq(line, 1, a), {Blank})
    /\ IsNumeral(SubSeq(line, a + 1, i - 1))
    /\ line[i] = "%"
    /\ AllIn(SubSeq(line, i + 1, i + b), {Blank})
    /\ IsNumeral(SubSeq(line, i + b + 1, Len(line) - 1))
    /\ line[Len(line)] = "ms"

C27_LatencyRule ==
    (engine.rules = << "latency" >> /\ engine.parsed # << >>) =>
        LET line == engine.out[1]
            res == engine.parsed[1]
        IN  \A a \in 0..Len(line), i \in 1..Len(line), b \in 1..Len(line) :
                LatencyLine(line, a, i, b) =>
                    /\ ~res.error /\ Len(res.records) = 1
                    /\ res.records[1].percentile =
                          NumeralValue(SubSeq(line, a + 1, i - 1))
                    /\ res.records[1].value =
                          NumeralValue(SubSeq(line, i + b + 1, Len(line) - 1))
                    /\ res.records[1].name = "sample-time"
                    /\ res.records[1].unit = "ms"
                    /\ res.records[1].better = "lower"

\* the line "5% 3ms" has given its record
C27_Witness ==
    /\ engine.rules = << "latency" >>
    /\ engine.out = << << "5", "%", Blank, "3", "ms" >> >>
    /\ Len(engine.parsed) = 1
    /\ Len(engine.parsed[1].records) = 1
    /\ engine.parsed[1].records[1].percentile = [whole |-> << "5" >>, frac |-> << >>]
    /\ engine.parsed[1].records[1].value = [whole |-> << "3" >>, frac |-> << >>]

Parts(name) == Cardinality(HyphensIn(name)) + 1

C29_ExactlyTwoParts ==
    /\ bench.pc = "returned" => Parts(bench.suiteName) = 2
    /\ bench.pc \in {"returned", "aborted"} /\ Parts(bench.suiteName) # 2
          => bench.pc = "aborted" /\ bench.err = InvalidSuiteName

\* C30: each run-scoped flag is parsed by collecting the occurrences of its prefix,
\* and for every single-valued flag (stage list, benchmark-output directory,
\* skip-assertions toggle) more than one distinct value is a configuration error,
\* while repeating one value is not: an accessor ends in the error exactly when
\* its flag was given more than one distinct value.
ValuesGiven(prefix, args) ==
    { ParsedValue(prefix, args[i]) :
        i \in { j \in 1..Len(args) : StartsWith(args[j], prefix) } }
SeveralValues(prefix) == Cardinality(ValuesGiven(prefix, flagCall.args)) > 1
C30_SeveralValuesAreAnError ==
    /\ flagCall.pc \in {"stages", "aborted"}
          => (flagCall.pc = "aborted" <=> SeveralValues(StagesPrefix))
    /\ flagCall.pc = "dir" => ~SeveralValues(OutputDirPrefix)
    /\ flagCall.pc = "skip" => ~SeveralValues(SkipAgentAssertionsPrefix)

\* C31: the stage sequence comes from configuration or defaults: without a stage
\* override it is the five default stages in order; with an override it is the
\* comma-separated names of the override in the order given, and every element is
\* one of the five stage names.
NoOverride == ValuesGiven(StagesPrefix, flagCall.args) = {}
OverrideIs(v) == ValuesGiven(StagesPrefix, flagCall.args) = { v }
C31_StageSequence ==
    flagCall.pc = "stages" =>
        /\ NoOverride => flagCall.stages = DefaultStages
        /\ \A v \in ValuesGiven(StagesPrefix, flagCall.args) :
              /\ flagCall.stages = SplitBy(v, ",")
              /\ \A i \in 1..Len(flagCall.stages) : flagCall.stages[i] \in StageNames

\* C32: the records a multi-rule suite's rules give are ordered by the position of
\* their source line in the captured output, not by the order in which the rules
\* are declared.  A match is a rule (its index in rules()) with a line it matches
\* (its index in the output); the k-th record is the one of the k-th match.
MetricName(rule) ==
    CASE rule = "throughput" -> "throughput"
      [] rule = "latency" -> "sample-time"
      [] rule = "startup" -> "startup"
      [] rule = "summary" -> "warmup"
Matches ==
    { m \in (1..Len(engine.rules)) \X (1..Len(engine.out)) :
        Match(PatternOf(engine.rules[m[1]]), engine.out[m[2]]).matched }
LineFirst(a, b) == a[2] < b[2] \/ (a[2] = b[2] /\ a[1] < b[1])
RuleFirst(a, b) == a[1] < b[1] \/ (a[1] = b[1] /\ a[2] < b[2])
PlaceByLine(m) == Cardinality({ a \in Matches : LineFirst(a, m) }) + 1
PlaceByRule(m) == Cardinality({ a \in Matches : RuleFirst(a, m) }) + 1
FlagList(c) == Tail(c.cmd)
C33_SameFlagsEveryCall ==
    \A i, j \in 1..Len(runs) :
        \A a \in 1..Len(runs[i].cmds), b \in 1..Len(runs[j].cmds) :
            runs[i].cmds[a].run = runs[j].cmds[b].run
                => FlagList(runs[i].cmds[a]) = FlagList(runs[j].cmds[b])

\* C34: the process that receives the termination signal from a stage's tester
\* path is always the benchmarked process launched by that same stage (tester
\* path t belongs to the launch of process t); it is never a process started by
\* another stage.
C34_SignalGoesToOwnServer ==
    \A s \in signals : s[2] = s[1]

\* C35: exactly one tester path is started per launch of the benchmarked process.
\* Outside native mode run() starts one tester path, before the only launch, and
\* no run_stage call is made; in native mode run() starts none, a build stage
\* starts none and each run stage starts exactly one; no other step starts a
\* tester path, and when the server is launched its stage's tester path has been
\* started, once.
StartsTester(t) ==
    /\ tpc[t] = "idle"
    /\ tpc'[t] = "waitPort"
    /\ wait'[t] = CallFrame(PortWaitTimeout)
    /\ \A u \in Testers \ {t} : tpc'[u] = tpc[u]
StartsNoTester == \A t \in Testers : tpc[t] = "idle" => tpc'[t] = "idle"
TesterStarts(k) == Cardinality({ i \in 1..Len(steps[k]) : steps[k][i] = "tester" })
C35_OneTesterPerLaunch ==
    [][ /\ mainPc = "run" /\ mainPc' # "run" =>
              IF native THEN tpc' = tpc ELSE StartsTester(1) /\ mainPc' = "launch"
        /\ mainPc = "stage" /\ mainPc' # "stage" =>
              /\ native
              /\ IF IsBuildStage(stages[stage]) THEN tpc' = tpc /\ mainPc' # "launch"
                 ELSE StartsTester(stage) /\ TesterStarts(stage) = 0
        /\ mainPc \notin {"run", "stage"} => StartsNoTester
        /\ mainPc = "launch" /\ mainPc' = "wait" =>
              /\ tpc[stage] # "idle"
              /\ proc[stage].st = "none"
              /\ native => TesterStarts(stage) = 1 /\ ~IsBuildStage(stages[stage])
              /\ ~native => stage = 1 /\ \A k \in Testers : TesterStarts(k) = 0
      ]_vars

\* a native-mode run has launched the server of its second stage, with the tester
\* paths of both stages started
C35_Witness ==
    /\ native
    /\ stage = 2
    /\ mainPc = "wait"
    /\ TesterStarts(1) = 1
    /\ TesterStarts(2) = 1
    /\ tpc[1] # "idle"
    /\ tpc[2] # "idle"

\* C36: whenever runAndReturnStdOut assembles the final output, testerOutput holds
\* the completed capture of a measured tester run: it is not the initial '' and
\* the run that writes it has ended, whatever the interleaving.
Assembles == mainPc = "merge" /\ mainPc' # "merge"
C36_TesterOutputCompleteAtMerge ==
    [][Assembles => testerOutput # 0 /\ measuredDone[testerOutput]]_vars

\* C37: the first-response annotation in an invocation's final output was published
\* by a prober path that ran and succeeded during that same invocation; an
\* invocation in which no probe succeeded returns no annotation.
C37_AnnotationOfThisInvocation ==
    mainPc = "done" /\ result.first # 0 =>
        /\ published[result.first] > 0
        /\ ppc[result.first] = "done"

\* C38: the warm-up duration is selected by the mode: in native mode it is the value
\* of warmup-duration-native-image and warmup-duration is ignored, outside native
\* mode it is the value of warmup-duration and the native key is ignored; a call
\* that gets to run the tool makes a warm-up pass exactly when the selected value is
\* present and not empty, and with that value as its duration.
SelectedKey == IF native THEN "warmup-duration-native-image" ELSE "warmup-duration"
IgnoredKey == IF native THEN "warmup-duration" ELSE "warmup-duration-native-image"
C38_WarmupDurationByMode ==
    \A i \in 1..Len(runs) :
        runs[i].cmds # << >> =>
            /\ WarmupRuns(runs[i].cmds) # {} <=> config[SelectedKey] = "set"
            /\ \A j \in WarmupRuns(runs[i].cmds) :
                  /\ runs[i].cmds[j].cmd[2] = Flag("duration")
                  /\ runs[i].cmds[j].cmd[3] = Str(SelectedKey)

\* a native-mode call returned without a warm-up pass although warmup-duration had
\* a value: the native key gave none
C38_Witness ==
    /\ config[IgnoredKey] = "set"
    /\ config[SelectedKey] # "set"
    /\ native
    /\ \E i \in 1..Len(runs) :
          /\ runs[i].end = "returned"
          /\ WarmupRuns(runs[i].cmds) = {}
          /\ Len(runs[i].cmds) = 1

\* C39: a timeToFirstResponse call that returns has started a prober path exactly
\* when the microservice name (the suite name up to its first hyphen) occurs in
\* the concatenation of the command's words, has started at most one, and has
\* returned the command it was given, unchanged.
MicroserviceOf(name) ==
    SubSeq(name, 1, (CHOOSE h \in HyphensIn(name) : \A g \in HyphensIn(name) : h <= g) - 1)
C39_ProberIffNameInCommand ==
    probeCall.pc = "returned" =>
        LET name == MicroserviceOf(probeCall.suiteName)
            text == Join(probeCall.cmd)
        IN  /\ probeCall.started \in {0, 1}
            /\ probeCall.started = 1 <=>
                  \E i \in 0..(Len(text) - Len(name)) :
                      \A j \in 1..Len(name) : text[i + j] = name[j]
            /\ probeCall.ret = probeCall.cmd

\* the name "ab" of the suite "ab-b" is in no word of the command ["a", "b"] but
\* in their concatenation: a prober was started and the command returned
C39_Witness ==
    /\ probeCall.pc = "returned"
    /\ probeCall.suiteName = << "a", "b", "-", "b" >>
    /\ probeCall.cmd = << << "a" >>, << "b" >> >>
    /\ probeCall.started = 1
    /\ probeCall.ret = << << "a" >>, << "b" >> >>

====
